---- MODULE Spec2Model ----
(***************************************************************************)
(* A model of the CIL interpreter (namespace ili): the typed evaluation    *)
(* stack (class Stack), the method frames (class Method) and the Runtime   *)
(* that dispatches instructions, initialises types lazily, resolves        *)
(* cross-assembly calls through loader callbacks and allocates heap        *)
(* objects.                                                                *)
(*                                                                         *)
(* Values are sequences of bytes (little endian), so that the memcpy       *)
(* widths of Stack::push and Stack::pop are part of the model.  Places     *)
(* where the C++ has undefined behaviour are modelled as a choice among    *)
(* the outcomes a build can produce (a crash of the process, or the read   *)
(* or write going through on the neighbouring memory).                     *)
(***************************************************************************)
EXTENDS Integers, Sequences, FiniteSets, TLC

VARIABLES
    m_stack,            \* Runtime::m_stack, a Stack
    m_assemblies,       \* Runtime::m_assemblies: registry key -> assembly
    m_assemblyLoaders,  \* Runtime::m_assemblyLoaders, in insertion order
    m_methodStack,      \* Runtime::m_methodStack
    m_initializedTypes, \* Runtime::m_initializedTypes
    m_staticVariables,  \* Runtime::m_staticVariables
    m_heapKey,          \* Runtime::m_heapKey
    m_heap,             \* Runtime::m_heap
    callStack,          \* the active executeInstructions() calls, innermost last
    status,             \* "idle", "running", "returned", "error", "crashed"
    lastError,          \* the error that left run(), "none" otherwise
    runResult,          \* what the last run() returned: << >> while it has not
    runs,               \* number of run() calls made on this Runtime
    entry,              \* the entrypoint body of the assembly given to run()
    lastOp,             \* history: the operation that was performed last
    cctorCount,         \* history: .cctor frames entered, per type
    loaderCalls,        \* history: invocations per (loader position, name)
    lastStored,         \* history: per field, what the last finished Stsfld popped
    marks               \* history: the pushes not yet popped (stack operations);
                        \* the input of the metadata functions run on their own

vars == << m_stack, m_assemblies, m_assemblyLoaders, m_methodStack,
           m_initializedTypes, m_staticVariables, m_heapKey, m_heap,
           callStack, status, lastError, runResult, runs, entry, lastOp,
           cctorCount, loaderCalls, lastStored, marks >>

(***************************************************************************)
(* Bounds of the model.                                                    *)
(***************************************************************************)
\* capacity, in bytes, of the stack the stack operations are exercised on
StackCap == 8
\* bytes after the end of the stack buffer that the model follows writes into
OverrunSlack == 8
\* run() calls followed on one Runtime
MaxRuns == 2
\* loaders registered on one Runtime
MaxLoaders == 2
\* nesting of executeInstructions() calls followed
MaxDepth == 4
\* heap objects followed
MaxHeap == 3
\* instructions before the final Ret in a generated entrypoint body
MaxBody == 2

(***************************************************************************)
(* ValueType, getTypeSize, Stack::getValueType.                            *)
(***************************************************************************)
ValueTypes == {"Int32", "Int64", "NativeInt", "NativeUnsignedInt", "F", "O", "Pointer"}

\* the C++ types T that Stack::push<T> and Stack::pop<T> are instantiated with
CppTypes == {"i32", "i64", "Float", "NativeInt", "NativeUnsignedInt",
             "ManagedPointer", "UnmanagedPointer"}

getTypeSize(type) ==
    CASE type = "Int32" -> 4
      [] type \in {"Int64", "NativeInt", "NativeUnsignedInt", "F", "O", "Pointer"} -> 8
      [] OTHER -> 0

getValueType(T) ==
    CASE T = "i32" -> "Int32"
      [] T = "i64" -> "Int64"
      [] T = "Float" -> "F"
      [] T = "NativeInt" -> "NativeInt"
      [] T = "NativeUnsignedInt" -> "NativeUnsignedInt"
      [] T = "ManagedPointer" -> "O"
      [] T = "UnmanagedPointer" -> "Pointer"

\* sizeof(T): i32 is four bytes, every other stack type is eight
SizeOf(T) == IF T = "i32" THEN 4 ELSE 8

\* the C++ type a tag is popped as (the switch of Runtime::pop and of
\* createVariableFromStackContent)
CppTypeOf(type) == CHOOSE T \in CppTypes : getValueType(T) = type

(***************************************************************************)
(* class Stack.  mem is the byte buffer m_stack followed by OverrunSlack   *)
(* bytes of the memory behind it; cap is m_stack.size(); sp is             *)
(* m_stackPointer - m_stack.data(); tags is m_typeStack.  broken: the      *)
(* size of m_typeStack has wrapped below zero (pop_back on an empty        *)
(* vector); overrun: bytes behind the buffer have been written.            *)
(***************************************************************************)
Zeros(n) == [i \in 1..n |-> 0]

Stack(size) ==
    [mem |-> Zeros(size + OverrunSlack), cap |-> size, sp |-> 0, tags |-> << >>,
     broken |-> FALSE, overrun |-> FALSE]

getUsedStackSize(st) == st.sp

\* What a read of m_typeStack[size() - 1] can yield on an empty vector: any
\* byte, that is one of the enumerators, Invalid, or no enumerator at all.
GarbageTags == ValueTypes \cup {"Invalid", "Other"}

\* the tags getTypeOnStack() can return (one tag unless the vector is empty)
getTypeOnStack(st) ==
    IF Len(st.tags) > 0 /\ ~st.broken THEN {st.tags[Len(st.tags)]} ELSE GarbageTags

\* does getTypeOnStack() read outside m_typeStack?
TagReadOutOfBounds(st) == Len(st.tags) = 0 \/ st.broken

Outcome(st, err, ret, crash) == [st |-> st, err |-> err, ret |-> ret, crash |-> crash]

\* m_typeStack.pop_back(): on an empty vector the size wraps
popTag(st) ==
    IF Len(st.tags) > 0
    THEN [st EXCEPT !.tags = SubSeq(st.tags, 1, Len(st.tags) - 1)]
    ELSE [st EXCEPT !.broken = TRUE]

\* a faulty pop: the memset without the memcpy
popRead_NoCopy(st, T, sizeToPop) == Zeros(SizeOf(T))

\* memcpy(&ret, m_stackPointer, sizeToPop) into a zero-filled T
popRead(st, T, sizeToPop) ==
    [i \in 1..SizeOf(T) |->
        IF i <= sizeToPop /\ st.sp + i \in 1..Len(st.mem) THEN st.mem[st.sp + i] ELSE 0]

\* the body of pop<T>() once the top tag has been read as `type`
popWithTag(st, T, type) ==
    LET sizeToPop == getTypeSize(type)
        moved == [popTag(st) EXCEPT !.sp = st.sp - SizeOf(T)]
    IN  IF sizeToPop > SizeOf(T) THEN Outcome(st, "NotEnoughData", << >>, FALSE)
        ELSE IF type # getValueType(T) THEN Outcome(st, "TypeMismatch", << >>, FALSE)
        ELSE IF moved.sp < 0 THEN Outcome(moved, "Underflow", << >>, FALSE)
        ELSE Outcome(moved, "none", popRead(moved, T, sizeToPop), FALSE)

\* Stack::pop<T>(): the set of its outcomes
Stack_pop(st, T) ==
    {popWithTag(st, T, type) : type \in getTypeOnStack(st)}
    \cup (IF TagReadOutOfBounds(st) THEN {Outcome(st, "none", << >>, TRUE)} ELSE {})

\* a faulty push: memcpy of four bytes whatever the type
pushWrite_FourBytes(st, T, value) ==
    [st EXCEPT !.mem = [i \in 1..Len(st.mem) |->
                           IF i > st.sp /\ i <= st.sp + 4 THEN value[i - st.sp] ELSE st.mem[i]],
               !.overrun = st.overrun \/ (st.sp + 4 > st.cap)]

\* memcpy(m_stackPointer, &value, ValueSize)
pushWrite(st, T, value) ==
    LET ValueSize == getTypeSize(getValueType(T))
    IN  [st EXCEPT !.mem = [i \in 1..Len(st.mem) |->
                               IF i > st.sp /\ i <= st.sp + ValueSize
                               THEN value[i - st.sp] ELSE st.mem[i]],
                   !.overrun = st.overrun \/ (st.sp + ValueSize > st.cap)]

\* m_typeStack.push_back(ValueType); m_stackPointer += sizeof(T)
pushAdvance(st, T) ==
    [st EXCEPT !.tags = Append(st.tags, getValueType(T)), !.sp = st.sp + SizeOf(T)]

\* does push<T>() write behind the end of the buffer?
WriteOutOfBounds(st, T) == st.sp + getTypeSize(getValueType(T)) > st.cap

\* Stack::push<T>(value): the set of its outcomes
Stack_push(st, T, value) ==
    {Outcome(pushAdvance(pushWrite(st, T, value), T), "none", << >>, FALSE)}
    \cup (IF WriteOutOfBounds(st, T) THEN {Outcome(st, "none", << >>, TRUE)} ELSE {})

\* the model follows a push only while it stays inside the modelled memory
PushModelled(st, T) == st.sp >= 0 /\ st.sp + SizeOf(T) <= Len(st.mem)

RECURSIVE SumTypeSizes(_)
SumTypeSizes(tags) ==
    IF tags = << >> THEN 0
    ELSE getTypeSize(tags[1]) + SumTypeSizes(Tail(tags))

(***************************************************************************)
(* Values pushed in the model.                                             *)
(***************************************************************************)
I32(n) == << n, 0, 0, 0 >>
Wide(a, b) == << a, 0, 0, 0, b, 0, 0, 0 >>

ValuesOf(T) ==
    IF T = "i32" THEN {I32(7), << 255, 255, 255, 255 >>}
    ELSE IF T = "i64" THEN {Wide(1, 2), Wide(0, 3)}
    ELSE {Wide(4, 5)}

\* the record kept in lastOp: the operation, its argument (a C++ type, a field,
\* a name), whether its handler has finished, the error it raised, the value it
\* pushed or returned, and whether it popped from an empty stack
Op(op, arg, done, err, value, onEmpty) ==
    [op |-> op, arg |-> arg, done |-> done, err |-> err, value |-> value,
     onEmpty |-> onEmpty]

NoOp == Op("none", "none", TRUE, "none", << >>, FALSE)

(***************************************************************************)
(* Metadata.  A table is a sequence of rows, row i having the 1-based      *)
(* index i.  A row reference is a row number, Null (nullptr) or OutOfRange *)
(* (the address of the element one past the end of the table's vector,     *)
(* which getTableEntry hands out for index rowCount + 1).                  *)
(***************************************************************************)
Null == 0
OutOfRange == -1

TypeDefID == 2
FieldID == 4
MethodDefID == 6
MemberRefID == 10
ClassLayoutID == 15
UserStringID == 112
InvalidTableID == 255

Token(id, index) == [id |-> id, index |-> index]

\* the bytes of a token operand, little endian: 24 bits of index, then the table id
TokenBytes(tok) == << tok.index, 0, 0, tok.id >>

(***************************************************************************)
(* Opcodes (one byte, or 0xFE and a second byte) and their encodings.      *)
(***************************************************************************)
Prefix == 254

OneByte ==
    [b \in 0..255 |->
        CASE b = 0 -> [op |-> "Nop", operand |-> 0]
          [] b = 1 -> [op |-> "Brk", operand |-> 0]
          [] b = 2 -> [op |-> "Ldarg_0", operand |-> 0]
          [] b = 3 -> [op |-> "Ldarg_1", operand |-> 0]
          [] b = 4 -> [op |-> "Ldarg_2", operand |-> 0]
          [] b = 5 -> [op |-> "Ldarg_3", operand |-> 0]
          [] b = 6 -> [op |-> "Ldloc_0", operand |-> 0]
          [] b = 7 -> [op |-> "Ldloc_1", operand |-> 0]
          [] b = 8 -> [op |-> "Ldloc_2", operand |-> 0]
          [] b = 9 -> [op |-> "Ldloc_3", operand |-> 0]
          [] b = 10 -> [op |-> "Stloc_0", operand |-> 0]
          [] b = 11 -> [op |-> "Stloc_1", operand |-> 0]
          [] b = 12 -> [op |-> "Stloc_2", operand |-> 0]
          [] b = 13 -> [op |-> "Stloc_3", operand |-> 0]
          [] b = 14 -> [op |-> "Ldarg_s", operand |-> 1]
          [] b = 17 -> [op |-> "Ldloc_s", operand |-> 1]
          [] b = 18 -> [op |-> "Ldloca_s", operand |-> 1]
          [] b = 19 -> [op |-> "Stloc_s", operand |-> 1]
          [] b = 21 -> [op |-> "Ldc_i4_m1", operand |-> 0]
          [] b \in 22..30 -> [op |-> "Ldc_i4_n", operand |-> 0]
          [] b = 31 -> [op |-> "Ldc_i4_s", operand |-> 1]
          [] b = 32 -> [op |-> "Ldc_i4", operand |-> 4]
          [] b = 33 -> [op |-> "Ldc_i8", operand |-> 8]
          [] b = 34 -> [op |-> "Ldc_r4", operand |-> 4]
          [] b = 35 -> [op |-> "Ldc_r8", operand |-> 8]
          [] b = 38 -> [op |-> "Pop", operand |-> 0]
          [] b = 40 -> [op |-> "Call", operand |-> 4]
          [] b = 42 -> [op |-> "Ret", operand |-> 0]
          [] b = 43 -> [op |-> "Br_s", operand |-> 1]
          [] b = 56 -> [op |-> "Br", operand |-> 4]
          [] b = 114 -> [op |-> "Ldstr", operand |-> 4]
          [] b = 115 -> [op |-> "Newobj", operand |-> 4]
          [] b = 126 -> [op |-> "Ldsfld", operand |-> 4]
          [] b = 127 -> [op |-> "Ldsflda", operand |-> 4]
          [] b = 128 -> [op |-> "Stsfld", operand |-> 4]
          [] OTHER -> [op |-> "Other", operand |-> 0]]

TwoByte ==
    [b \in 0..255 |->
        CASE b = 9 -> [op |-> "Ldarg", operand |-> 2]
          [] b = 12 -> [op |-> "Ldloc", operand |-> 2]
          [] b = 14 -> [op |-> "Stloc", operand |-> 2]
          [] OTHER -> [op |-> "Other", operand |-> 0]]

\* the byte of `code` at byte offset `at`; 0 where the code has no such byte
ByteAt(code, at) == IF at >= 0 /\ at < Len(code) THEN code[at + 1] ELSE 0

\* op::Instruction(bytes.subspan(offset)): the opcode, the offset of the first
\* operand byte and the length of the instruction
Instruction(code, offset) ==
    LET b == ByteAt(code, offset)
        two == b = Prefix
        e == IF two THEN TwoByte[ByteAt(code, offset + 1)] ELSE OneByte[b]
        n == IF two THEN 2 ELSE 1
    IN  [op |-> e.op, byte |-> b, operandAt |-> offset + n, len |-> n + e.operand]

\* instruction.get<T>(0) for the unsigned and the signed operand types
GetU8(code, ins) == ByteAt(code, ins.operandAt)
GetU16(code, ins) == ByteAt(code, ins.operandAt) + 256 * ByteAt(code, ins.operandAt + 1)
GetI8(code, ins) ==
    LET b == ByteAt(code, ins.operandAt) IN IF b >= 128 THEN b - 256 ELSE b
GetBytes(code, ins, n) == [i \in 1..n |-> ByteAt(code, ins.operandAt + i - 1)]
GetI32(code, ins) ==
    LET low == ByteAt(code, ins.operandAt) + 256 * ByteAt(code, ins.operandAt + 1)
               + 65536 * ByteAt(code, ins.operandAt + 2)
        b == ByteAt(code, ins.operandAt + 3)
    IN  low + 16777216 * (IF b >= 128 THEN b - 256 ELSE b)
GetToken(code, ins) ==
    Token(ByteAt(code, ins.operandAt + 3),
          ByteAt(code, ins.operandAt) + 256 * ByteAt(code, ins.operandAt + 1)
          + 65536 * ByteAt(code, ins.operandAt + 2))

\* the assembler used to write the method bodies of the model; the opcodes
\* without an operand are written as their byte: 0 is nop, 6 ldloc.0, 7 ldloc.1,
\* 10 stloc.0, 11 stloc.1, 22 ldc.i4.0, and 114 with a token is ldstr
Ret == << 42 >>
Pop == << 38 >>
Ldc_i4_7 == << 29 >>
Ldc_i4_s(n) == << 31, n >>
Ldc_i8(a, b) == << 33 >> \o Wide(a, b)
Br_s(d) == << 43, IF d < 0 THEN d + 256 ELSE d >>
Call(tok) == << 40 >> \o TokenBytes(tok)
Newobj(tok) == << 115 >> \o TokenBytes(tok)
Ldsfld(tok) == << 126 >> \o TokenBytes(tok)
Ldsflda(tok) == << 127 >> \o TokenBytes(tok)
Stsfld(tok) == << 128 >> \o TokenBytes(tok)

RECURSIVE Concat(_)
Concat(ss) == IF ss = << >> THEN << >> ELSE Head(ss) \o Concat(Tail(ss))

(***************************************************************************)
(* The assemblies of the model.  A is the assembly given to run(); the     *)
(* body of its entrypoint, Main, is the variable `entry`.  B is an         *)
(* assembly that loaders can supply.                                       *)
(***************************************************************************)
\* Optional-Header sizeOfStackReserve of assembly A, in bytes
StackReserve == 8

TypeRow(ns, name, methodList, size) ==
    [typeNamespace |-> ns, typeName |-> name, methodList |-> methodList, size |-> size]
MethodRow(name, code) == [name |-> name, code |-> code]
FieldRow(name, owner) == [name |-> name, owner |-> owner]
MemberRefRow(asm, ns, type, name) ==
    [assemblyName |-> asm, namespaceName |-> ns, typeName |-> type, methodName |-> name]

FieldF1 == Token(FieldID, 1)
FieldF2 == Token(FieldID, 2)
FieldH == Token(FieldID, 3)
RefBM == Token(MemberRefID, 1)
RefBCtor == Token(MemberRefID, 2)
RefXM == Token(MemberRefID, 3)
RefBMissing == Token(MemberRefID, 4)

\* T1's .cctor stores 99 to T1::F1 and 5 to T2::F2
CctorT1 == Concat(<< Ldc_i4_s(99), Stsfld(FieldF1), Ldc_i4_s(5), Stsfld(FieldF2), Ret >>)
\* T2's .cctor copies T1::F1 to T2::F2 and reads T2::F2 back
CctorT2 == Concat(<< Ldsfld(FieldF1), Stsfld(FieldF2), Ldsfld(FieldF2), Pop, Ret >>)

AssemblyA ==
    [module |-> "A", sizeOfStackReserve |-> StackReserve,
     entryPoint |-> Token(MethodDefID, 1),
     TypeDef |-> << TypeRow("", "<Module>", 1, 0), TypeRow("App", "Program", 1, 0),
                    TypeRow("App", "T1", 3, 4), TypeRow("App", "T2", 4, 4),
                    TypeRow("App", "T3", 5, 4) >>,
     MethodDef |-> << MethodRow("Main", << >>), MethodRow("Helper", Ret),
                      MethodRow(".cctor", CctorT1), MethodRow(".cctor", CctorT2),
                      MethodRow("Bad", << 88, 42 >>) >>,
     Field |-> << FieldRow("F1", 3), FieldRow("F2", 4), FieldRow("H", 5) >>,
     MemberRef |-> << MemberRefRow("B", "Ns", "C", "M"), MemberRefRow("B", "Ns", "C", ".ctor"),
                      MemberRefRow("X", "Ns", "C", "M"),
                      MemberRefRow("B", "Ns", "C", "Missing"),
                      MemberRefRow("B", "Ns", "Nope", "M") >>]

AssemblyB ==
    [module |-> "B", sizeOfStackReserve |-> StackReserve,
     entryPoint |-> Token(MethodDefID, 1),
     TypeDef |-> << TypeRow("", "<Module>", 1, 0), TypeRow("Ns", "C", 1, 8),
                    TypeRow("Ns", "D", 3, 16) >>,
     MethodDef |-> << MethodRow("M", Ret), MethodRow(".ctor", Concat(<< Pop, Ret >>)),
                      MethodRow("M", Concat(<< << 0 >>, Ret >>)) >>,
     Field |-> << >>,
     MemberRef |-> << >>]

\* A2 is another executable whose module is also named "A": its entrypoint is
\* Helper
Assemblies ==
    [A |-> AssemblyA, A2 |-> [AssemblyA EXCEPT !.entryPoint = Token(MethodDefID, 2)],
     B |-> AssemblyB]

RowCount(a, table) ==
    CASE table = TypeDefID -> Len(a.TypeDef)
      [] table = MethodDefID -> Len(a.MethodDef)
      [] table = FieldID -> Len(a.Field)
      [] table = MemberRefID -> Len(a.MemberRef)
      [] table = ClassLayoutID -> Len(a.ClassLayout)
      [] OTHER -> 0

\* Assembly::getTableEntry<T>(token): a row reference
getTableEntry(a, T, token) ==
    IF token.id # T THEN Null
    ELSE LET index == token.index - 1
         IN  IF index < 0 \/ index > RowCount(a, T) THEN Null
             ELSE IF index = RowCount(a, T) THEN OutOfRange
             ELSE index + 1

\* Assembly::getTableEntryByIndex<T>(index)
getTableEntryByIndex(a, T, index) ==
    IF index = 0 \/ index > RowCount(a, T) + 1 THEN Null
    ELSE getTableEntry(a, T, Token(T, index))

\* Assembly::getTokenOfTableEntry(tableEntry)
getTokenOfTableEntry(a, T, tableEntry) ==
    IF \E index \in 0..(RowCount(a, T) - 1) :
           getTableEntryByIndex(a, T, index + 1) = tableEntry
    THEN Token(T, (CHOOSE index \in 0..(RowCount(a, T) - 1) :
                       /\ getTableEntryByIndex(a, T, index + 1) = tableEntry
                       /\ \A j \in 0..(index - 1) :
                              getTableEntryByIndex(a, T, j + 1) # tableEntry) + 1)
    ELSE Token(InvalidTableID, 0)

\* the outcome of a lookup that dereferences a null or a garbage row pointer
Crashed == -2

\* Assembly::getMethodByName: the set of its outcomes (a MethodDef row, Null,
\* or Crashed).  The inner loop tests `index < nextTypeDef->methodListIndex`,
\* a condition that does not change while it runs.
RECURSIVE scanMethods(_, _, _)
scanMethods(a, methodListIndex, methodName) ==
    LET methodDef == getTableEntryByIndex(a, MethodDefID, methodListIndex)
    IN  IF methodDef = Null \/ methodDef = OutOfRange THEN {Crashed}
        ELSE IF a.MethodDef[methodDef].name # methodName
             THEN scanMethods(a, methodListIndex + 1, methodName)
             ELSE {methodDef}

RECURSIVE scanTypes(_, _, _, _, _)
scanTypes(a, index, namespaceName, typeName, methodName) ==
    IF index >= RowCount(a, TypeDefID) THEN {Null}
    ELSE
      LET typeDef == a.TypeDef[index + 1]
          rest == scanTypes(a, index + 1, namespaceName, typeName, methodName)
          nextTypeDef == getTableEntryByIndex(a, TypeDefID, index + 2)
          inner == scanMethods(a, typeDef.methodList, methodName)
      IN  IF namespaceName # typeDef.typeNamespace \/ typeDef.typeName # typeName THEN rest
          ELSE IF nextTypeDef = OutOfRange THEN inner \cup rest \cup {Crashed}
          ELSE IF index < a.TypeDef[nextTypeDef].methodList THEN inner
          ELSE rest

getMethodByName(a, namespaceName, typeName, methodName) ==
    scanTypes(a, 0, namespaceName, typeName, methodName)

\* Assembly::getTypeDefOfMethod: the set of its outcomes (a TypeDef row
\* reference or Crashed)
RECURSIVE typeDefLoop(_, _, _)
typeDefLoop(a, i, methodToFind) ==
    IF i >= RowCount(a, MethodDefID)
    THEN {getTableEntryByIndex(a, TypeDefID, RowCount(a, MethodDefID))}
    ELSE
      LET currTypeDef == getTableEntryByIndex(a, TypeDefID, i)
          nextTypeDef == getTableEntryByIndex(a, TypeDefID, i + 1)
          rest == typeDefLoop(a, i + 1, methodToFind)
      IN  IF currTypeDef = Null \/ nextTypeDef = Null THEN {Crashed}
          ELSE IF currTypeDef = OutOfRange \/ nextTypeDef = OutOfRange
               THEN {nextTypeDef, Crashed} \cup rest
          ELSE
            LET currMethodDef ==
                    getTableEntryByIndex(a, MethodDefID, a.TypeDef[currTypeDef].methodList)
                nextMethodDef ==
                    getTableEntryByIndex(a, MethodDefID, a.TypeDef[nextTypeDef].methodList)
            IN  IF currMethodDef = OutOfRange \/ nextMethodDef = OutOfRange
                THEN {nextTypeDef} \cup rest
                ELSE IF methodToFind >= currMethodDef /\ methodToFind < nextMethodDef
                     THEN {nextTypeDef}
                     ELSE rest

getTypeDefOfMethod(a, methodToFind) ==
    IF methodToFind = Null THEN {Null} ELSE typeDefLoop(a, 1, methodToFind)

\* Assembly::getClassLayoutOfType: the set of its outcomes (a ClassLayout row
\* reference, Null or Crashed); i is the loop variable, which starts at 0
RECURSIVE classLayoutLoop(_, _, _)
classLayoutLoop(a, i, typeDef) ==
    IF i >= RowCount(a, ClassLayoutID) THEN {Null}
    ELSE
      LET currClassLayout == getTableEntryByIndex(a, ClassLayoutID, i)
          rest == classLayoutLoop(a, i + 1, typeDef)
      IN  IF currClassLayout = Null THEN {Crashed}
          ELSE IF currClassLayout = OutOfRange THEN {currClassLayout, Crashed} \cup rest
          ELSE IF getTableEntryByIndex(a, TypeDefID, a.ClassLayout[currClassLayout].parent)
                      = typeDef
               THEN {currClassLayout}
               ELSE rest

getClassLayoutOfType(a, typeDef) ==
    IF typeDef = Null THEN {Null} ELSE classLayoutLoop(a, 0, typeDef)

\* Assembly::getTypeDefOfField: the TypeDef that declares the field
getTypeDefOfField(a, field) == a.Field[field].owner

\* Assembly::getMethodOfType(typeDef, name): the method of that name in the
\* type's method range, Null when it has none
getMethodOfType(a, typeDef, name) ==
    LET first == a.TypeDef[typeDef].methodList
        last == IF typeDef < Len(a.TypeDef) THEN a.TypeDef[typeDef + 1].methodList - 1
                ELSE Len(a.MethodDef)
        found == {m \in first..last : m \in 1..Len(a.MethodDef) /\ a.MethodDef[m].name = name}
    IN  IF found = {} THEN Null ELSE CHOOSE m \in found : \A n \in found : m <= n

\* Assembly::getTypeSize(typeDef): the size of an object of the type
Assembly_getTypeSize(a, typeDef) == a.TypeDef[typeDef].size

\* Assembly::getQualifiedMemberName(memberRefToken)
getQualifiedMemberName(a, memberRefToken) ==
    a.MemberRef[getTableEntry(a, MemberRefID, memberRefToken)]

(***************************************************************************)
(* Runtime state: frames, variables, the registry and the loaders.         *)
(***************************************************************************)
EmptyMap == [x \in {} |-> 0]

\* a Variable<T>: the tag and the payload bytes; NullVar is an empty unique_ptr
Variable(type, value) == [type |-> type, value |-> value]
NullVar == Variable("null", << >>)

\* std::array<std::unique_ptr<VariableBase>, 0xFF> m_localVariables
NumLocals == 255

NoPend == [op |-> "none", field |-> 0]

\* a frame that starts with the local slots of the frame that enters it
Method_InheritsLocals(asmKey, a, methodToken, kind, type) ==
    [asm |-> asmKey, token |-> methodToken,
     method |-> getTableEntry(a, MethodDefID, methodToken),
     pc |-> 0,
     locals |-> IF callStack = << >> THEN EmptyMap ELSE callStack[Len(callStack)].locals,
     pend |-> NoPend, kind |-> kind, type |-> type]

\* Method::Method(assembly, methodToken), with m_methodDef as getMethodDef()
\* resolves it; kind and type say what entered the frame
Method(asmKey, a, methodToken, kind, type) ==
    [asm |-> asmKey, token |-> methodToken,
     method |-> getTableEntry(a, MethodDefID, methodToken),
     pc |-> 0, locals |-> EmptyMap, pend |-> NoPend, kind |-> kind, type |-> type]

Top == callStack[Len(callStack)]
Front(s) == SubSeq(s, 1, Len(s) - 1)
SetTop(f) == [callStack EXCEPT ![Len(callStack)] = f]

Asm(key) == Assemblies[m_assemblies[key]]

\* Method::getByteCode()
getByteCode(f) ==
    IF f.method = OutOfRange THEN << >>
    ELSE IF m_assemblies[f.asm] = "A" /\ f.method = 1 THEN entry
    ELSE Asm(f.asm).MethodDef[f.method].code

\* the loaders of the model: Empty has no assembly, HasB supplies B for "B"
LoaderKinds == {"Empty", "HasB"}
NoAssembly == "none"
loaderFunction(kind, assemblyName) ==
    IF kind = "HasB" /\ assemblyName = "B" THEN "B" ELSE NoAssembly

AssemblyNames == {"B", "X"}
TypeIds == {<< "A", 3 >>, << "A", 4 >>, << "A", 5 >>}
FieldIds == {<< "A", 1 >>, << "A", 2 >>, << "A", 3 >>}

regVars == << m_assemblies, m_assemblyLoaders, loaderCalls >>
staticVars == << m_initializedTypes, m_staticVariables, cctorCount, lastStored >>
heapVars == << m_heapKey, m_heap >>
fixedVars == << m_methodStack, runs, entry, marks >>

(***************************************************************************)
(* How a handler ends: dispatch goes on in the frame, a callee frame is    *)
(* entered, the frame returns, an exception leaves run(), or the process   *)
(* dies.                                                                   *)
(***************************************************************************)
Continue(f, op) ==
    /\ callStack' = SetTop(f)
    /\ status' = "running"
    /\ lastError' = lastError
    /\ runResult' = runResult
    /\ lastOp' = op

\* an exception that the frame below the throwing one catches
Throw_CaughtByCaller(kind, op) ==
    /\ callStack' = Front(callStack)
    /\ status' = IF Len(callStack) = 1 THEN "error" ELSE "running"
    /\ lastError' = kind
    /\ runResult' = runResult
    /\ lastOp' = [op EXCEPT !.err = kind]

Throw(kind, op) ==
    /\ callStack' = << >>
    /\ status' = "error"
    /\ lastError' = kind
    /\ runResult' = runResult
    /\ lastOp' = [op EXCEPT !.err = kind]

CrashProcess(op) ==
    /\ callStack' = << >>
    /\ status' = "crashed"
    /\ lastError' = lastError
    /\ runResult' = runResult
    /\ lastOp' = [op EXCEPT !.err = "crash"]

\* a callee entered with the caller left at the calling instruction
Enter_CallerStays(f, callee, op) ==
    /\ callStack' = Append(callStack, callee)
    /\ status' = "running"
    /\ lastError' = lastError
    /\ runResult' = runResult
    /\ lastOp' = op

\* executeInstructions(callee) called from the handler running in frame f
Enter(f, callee, op) ==
    /\ callStack' = Append(SetTop(f), callee)
    /\ status' = "running"
    /\ lastError' = lastError
    /\ runResult' = runResult
    /\ lastOp' = op

\* executeInstructions() returning to run() with the stack at its end, and
\* run() returning the number of bytes left on it
Leave_ReturnsStackSize(op) ==
    /\ callStack' = Front(callStack)
    /\ status' = IF Len(callStack) = 1 THEN "returned" ELSE "running"
    /\ lastError' = lastError
    /\ runResult' = IF Len(callStack) = 1 THEN << getUsedStackSize(m_stack) >> ELSE runResult
    /\ lastOp' = op

\* executeInstructions() returns: to the handler that called it, or to run(),
\* which then returns 0
Leave(op) ==
    /\ callStack' = Front(callStack)
    /\ status' = IF Len(callStack) = 1 THEN "returned" ELSE "running"
    /\ lastError' = lastError
    /\ runResult' = IF Len(callStack) = 1 THEN << 0 >> ELSE runResult
    /\ lastOp' = op

\* the end of a handler given the outcome o of its stack operation
Finish(f, o, op) ==
    IF o.crash THEN CrashProcess(op)
    ELSE IF o.err # "none" THEN Throw(o.err, op)
    ELSE Continue(f, op)

(***************************************************************************)
(* Runtime helpers that move values between the stack and variables.       *)
(***************************************************************************)
CrashOutcome(st) == Outcome(st, "none", << >>, TRUE)

\* Runtime::pop(): the set of its outcomes.  A tag that is no enumerator
\* matches no case of the switch, and nothing is popped.
popCase(st, type) ==
    IF type \in ValueTypes THEN popWithTag(st, CppTypeOf(type), type)
    ELSE IF type = "Invalid" THEN Outcome(st, "InvalidValueType", << >>, FALSE)
    ELSE Outcome(st, "none", << >>, FALSE)

Runtime_pop(st) ==
    {popCase(st, type) : type \in getTypeOnStack(st)}
    \cup (IF TagReadOutOfBounds(st) THEN {CrashOutcome(st)} ELSE {})

\* Runtime::createVariableFromStackContent(): outcomes whose ret is the Variable
createCase(st, type) ==
    IF type \in ValueTypes
    THEN LET o == popWithTag(st, CppTypeOf(type), type)
         IN  [o EXCEPT !.ret = IF o.err = "none" THEN Variable(type, o.ret) ELSE NullVar]
    ELSE Outcome(st, "InvalidValueType", NullVar, FALSE)

createVariableFromStackContent(st) ==
    {createCase(st, type) : type \in getTypeOnStack(st)}
    \cup (IF TagReadOutOfBounds(st) THEN {CrashOutcome(st)} ELSE {})

\* Runtime::storeVariableOnStack(variable): variable->type of an empty
\* unique_ptr is a null dereference
storeVariableOnStack(st, variable) ==
    IF variable = NullVar THEN {CrashOutcome(st)}
    ELSE IF variable.type \in ValueTypes
         THEN Stack_push(st, CppTypeOf(variable.type), variable.value)
         ELSE {Outcome(st, "InvalidValueType", << >>, FALSE)}

\* the model follows storeVariableOnStack only inside the modelled memory
StoreModelled(st, variable) ==
    variable.type \in ValueTypes => PushModelled(st, CppTypeOf(variable.type))

\* the element on top of the stack, read from the tags and the bytes
TopElement(st) ==
    LET type == st.tags[Len(st.tags)]
        size == getTypeSize(type)
    IN  Variable(type, [i \in 1..size |-> st.mem[st.sp - size + i]])

\* the address of a heap object's bytes, and of a static variable
HeapAddress(heapKey) == << heapKey + 1, 0, 0, 0, 0, 0, 0, 1 >>
VariableAddress(fieldId, variable) ==
    IF variable = NullVar THEN Zeros(8) ELSE << fieldId[2], 0, 0, 0, 0, 0, 0, 2 >>
LocalAddress(id, variable) ==
    IF variable = NullVar THEN Zeros(8) ELSE << id, 0, 0, 0, 0, 0, 0, 3 >>

\* createHeapObject without the increment of m_heapKey
createHeapObject_SameKey(heap, heapKey, size) ==
    IF heapKey \in DOMAIN heap
    THEN [heap |-> heap, heapKey |-> heapKey, err |-> "HeapCollision", ref |-> NullVar]
    ELSE [heap |-> (heapKey :> Zeros(size)) @@ heap, heapKey |-> heapKey,
          err |-> "none", ref |-> Variable("O", HeapAddress(heapKey))]

\* Runtime::createHeapObject(size)
createHeapObject(heap, heapKey, size) ==
    IF heapKey \in DOMAIN heap
    THEN [heap |-> heap, heapKey |-> heapKey, err |-> "HeapCollision", ref |-> NullVar]
    ELSE [heap |-> (heapKey :> Zeros(size)) @@ heap, heapKey |-> heapKey + 1,
          err |-> "none", ref |-> Variable("O", HeapAddress(heapKey))]

(***************************************************************************)
(* Static fields: Runtime::loadStaticField, ldsfld, ldsflda, stsfld.       *)
(***************************************************************************)
\* a faulty loadStaticField: the type is not recorded before its .cctor runs
insertInitialized_NotRecorded(types, typeId) == types

\* a faulty loadStaticField: every type counts as initialised already
newlyInserted_Never(types, typeId) == FALSE

\* m_initializedTypes.insert(typeDef): the set afterwards
insertInitialized(types, typeId) == types \cup {typeId}

\* m_initializedTypes.insert(typeDef).second: was the type inserted by this call?
newlyInserted(types, typeId) == typeId \notin types

\* m_staticVariables[field]: operator[] creates an empty entry when there is none
staticEntry(statics, fieldId) ==
    IF fieldId \in DOMAIN statics THEN statics[fieldId] ELSE NullVar

\* what ldsfld, ldsflda and stsfld do once loadStaticField has returned
accessStatic(f, opName, fieldId) ==
    LET variable == staticEntry(m_staticVariables, fieldId)
        empty == m_stack.tags = << >>
    IN  CASE opName = "ldsfld" ->
               /\ StoreModelled(m_stack, variable)
               /\ m_staticVariables' = (fieldId :> variable) @@ m_staticVariables
               /\ lastStored' = lastStored
               /\ \E o \in storeVariableOnStack(m_stack, variable) :
                      /\ m_stack' = o.st
                      /\ Finish(f, o, Op(opName, fieldId, TRUE, "none", variable, FALSE))
          [] opName = "ldsflda" ->
               LET address == Variable("O", VariableAddress(fieldId, variable))
               IN  /\ StoreModelled(m_stack, address)
                   /\ m_staticVariables' = (fieldId :> variable) @@ m_staticVariables
                   /\ lastStored' = lastStored
                   /\ \E o \in storeVariableOnStack(m_stack, address) :
                          /\ m_stack' = o.st
                          /\ Finish(f, o, Op(opName, fieldId, TRUE, "none", address, FALSE))
          [] opName = "stsfld" ->
               \E o \in createVariableFromStackContent(m_stack) :
                   /\ m_stack' = o.st
                   /\ IF o.crash \/ o.err # "none"
                      THEN UNCHANGED << m_staticVariables, lastStored >>
                      ELSE /\ m_staticVariables' = (fieldId :> o.ret) @@ m_staticVariables
                           /\ lastStored' = [lastStored EXCEPT ![fieldId] = o.ret]
                   /\ Finish(f, o, Op(opName, fieldId, TRUE, "none", o.ret, empty))

\* Runtime::loadStaticField followed by the access of the field
staticField(f, a, opName, token) ==
    LET field == getTableEntry(a, FieldID, token)
        typeDef == getTypeDefOfField(a, field)
        typeId == << f.asm, typeDef >>
        fieldId == << f.asm, field >>
        cctorMethod == getMethodOfType(a, typeDef, ".cctor")
        methodToCall == Method(f.asm, a, getTokenOfTableEntry(a, MethodDefID, cctorMethod),
                               "cctor", typeDef)
        waiting == Op(opName, fieldId, FALSE, "none", << >>, FALSE)
    IN  /\ UNCHANGED << regVars, heapVars, fixedVars >>
        /\ IF field = Null \/ field = OutOfRange
           THEN /\ CrashProcess(Op(opName, << f.asm, 0 >>, FALSE, "none", << >>, FALSE))
                /\ UNCHANGED << m_stack, staticVars >>
           ELSE IF newlyInserted(m_initializedTypes, typeId)
           THEN /\ m_initializedTypes' = insertInitialized(m_initializedTypes, typeId)
                /\ UNCHANGED << m_stack, m_staticVariables, lastStored >>
                /\ IF cctorMethod = Null
                   THEN CrashProcess(waiting) /\ cctorCount' = cctorCount
                   ELSE /\ Len(callStack) < MaxDepth
                        /\ cctorCount' = [cctorCount EXCEPT ![typeId] = @ + 1]
                        /\ Enter([f EXCEPT !.pend = [op |-> opName, field |-> field]],
                                 methodToCall, waiting)
           ELSE /\ UNCHANGED << m_initializedTypes, cctorCount >>
                /\ accessStatic(f, opName, fieldId)

(***************************************************************************)
(* Calls: Runtime::call and Runtime::newobj.                               *)
(***************************************************************************)
Range(seq) == {seq[i] : i \in DOMAIN seq}

\* a faulty loop over m_assemblyLoaders: no break after the first value
RECURSIVE consultLoaders_NoBreak(_, _, _)
consultLoaders_NoBreak(loaders, i, assemblyName) ==
    IF i > Len(loaders) THEN [invoked |-> << >>, result |-> NoAssembly]
    ELSE LET result == loaderFunction(loaders[i], assemblyName)
             later == consultLoaders_NoBreak(loaders, i + 1, assemblyName)
         IN  [invoked |-> << i >> \o later.invoked,
              result |-> IF result = NoAssembly THEN later.result ELSE result]

\* the loop over m_assemblyLoaders from position i on: the positions of the
\* loaders invoked, in the order of their invocation, and the value of the
\* first that returned one
RECURSIVE consultLoaders(_, _, _)
consultLoaders(loaders, i, assemblyName) ==
    IF i > Len(loaders) THEN [invoked |-> << >>, result |-> NoAssembly]
    ELSE LET result == loaderFunction(loaders[i], assemblyName)
             later == consultLoaders(loaders, i + 1, assemblyName)
         IN  IF result = NoAssembly
             THEN [invoked |-> << i >> \o later.invoked, result |-> later.result]
             ELSE [invoked |-> << i >>, result |-> result]

\* a faulty lookup: when no loader has the assembly, B is installed in its place
resolveAssembly_Fallback(assemblies, loaders, assemblyName) ==
    IF assemblyName \in DOMAIN assemblies
    THEN [assemblies |-> assemblies, invoked |-> << >>, result |-> assemblies[assemblyName]]
    ELSE LET r == consultLoaders(loaders, 1, assemblyName)
             found == IF r.result = NoAssembly THEN "B" ELSE r.result
         IN  [assemblies |-> (assemblyName :> found) @@ assemblies,
              invoked |-> r.invoked, result |-> found]

\* m_assemblies.find(assemblyName) and, when it finds nothing, the loaders:
\* the registry afterwards, the loaders invoked and the assembly found
resolveAssembly(assemblies, loaders, assemblyName) ==
    IF assemblyName \in DOMAIN assemblies
    THEN [assemblies |-> assemblies, invoked |-> << >>, result |-> assemblies[assemblyName]]
    ELSE LET r == consultLoaders(loaders, 1, assemblyName)
         IN  [assemblies |-> IF r.result = NoAssembly THEN assemblies
                             ELSE (assemblyName :> r.result) @@ assemblies,
              invoked |-> r.invoked, result |-> r.result]

countLoaderCalls(calls, invoked, assemblyName) ==
    [p \in DOMAIN calls |->
        IF p[2] = assemblyName /\ p[1] \in Range(invoked) THEN calls[p] + 1 ELSE calls[p]]

\* executeInstructions(methodToCall) at the end of call, newobj and
\* loadStaticField: getByteCode() dereferences the MethodDef row
enterCallee(f, callee, op) ==
    IF callee.method = Null THEN CrashProcess(op)
    ELSE IF callee.method = OutOfRange
    THEN \E way \in {"crash", "throw", "empty"} :
             CASE way = "crash" -> CrashProcess(op)
               [] way = "throw" -> Throw("UnsupportedMethodHeader", op)
               [] way = "empty" -> Len(callStack) < MaxDepth /\ Enter(f, callee, op)
    ELSE Len(callStack) < MaxDepth /\ Enter(f, callee, op)

\* a newobj that allocates the object and enters the constructor without
\* pushing the reference
allocateAndEnter_NoPush(f, callee, op, objectSize) ==
    LET h == createHeapObject(m_heap, m_heapKey, objectSize)
    IN  /\ m_heapKey < MaxHeap
        /\ m_heap' = h.heap
        /\ m_heapKey' = h.heapKey
        /\ m_stack' = m_stack
        /\ enterCallee(f, callee, op)

\* the allocation and the push of newobj, then the constructor frame
allocateAndEnter(f, callee, op, objectSize) ==
    LET h == createHeapObject(m_heap, m_heapKey, objectSize)
    IN  /\ m_heapKey < MaxHeap
        /\ IF h.err # "none"
           THEN Throw(h.err, op) /\ UNCHANGED << m_stack, heapVars >>
           ELSE /\ m_heap' = h.heap
                /\ m_heapKey' = h.heapKey
                /\ StoreModelled(m_stack, h.ref)
                /\ \E o \in storeVariableOnStack(m_stack, h.ref) :
                       /\ m_stack' = o.st
                       /\ IF o.crash THEN CrashProcess(op) ELSE enterCallee(f, callee, op)

\* case table::MethodDef::ID of call (isNew = FALSE) and of newobj (isNew = TRUE)
invokeMethodDef(f, a, token, opName, isNew) ==
    LET methodToCall == Method(f.asm, a, token, opName, 0)
        op == Op(opName, "MethodDef", TRUE, "none", << >>, FALSE)
    IN  /\ UNCHANGED regVars
        /\ \E typeDef \in getTypeDefOfMethod(a, methodToCall.method) :
               \E garbageRead \in BOOLEAN :
                   IF \/ typeDef = Crashed
                      \/ typeDef = Null
                      \/ (typeDef = OutOfRange /\ ~garbageRead)
                   THEN CrashProcess(op) /\ UNCHANGED << m_stack, heapVars >>
                   ELSE IF isNew
                   THEN allocateAndEnter(f, methodToCall, op,
                            IF typeDef = OutOfRange THEN 0
                            ELSE Assembly_getTypeSize(a, typeDef))
                   ELSE enterCallee(f, methodToCall, op)
                        /\ UNCHANGED << m_stack, heapVars >>

\* case table::MemberRef::ID of call (isNew = FALSE) and of newobj (isNew = TRUE)
invokeMemberRef(f, a, token, opName, isNew) ==
    LET memberRef == getTableEntry(a, MemberRefID, token)
        q == getQualifiedMemberName(a, token)
        assemblyName == q.assemblyName
        r == resolveAssembly(m_assemblies, m_assemblyLoaders, assemblyName)
        assembly == Assemblies[r.result]
        op == Op(opName, assemblyName, TRUE, "none", r.invoked, FALSE)
    IN  IF memberRef = Null \/ memberRef = OutOfRange
        THEN /\ CrashProcess(Op(opName, "MemberRef", TRUE, "none", << >>, FALSE))
             /\ UNCHANGED << m_stack, heapVars, regVars >>
        ELSE /\ m_assemblyLoaders' = m_assemblyLoaders
             /\ loaderCalls' = countLoaderCalls(loaderCalls, r.invoked, assemblyName)
             /\ m_assemblies' = r.assemblies
             /\ IF r.result = NoAssembly
                THEN Throw("AssemblyNotFound", op) /\ UNCHANGED << m_stack, heapVars >>
                ELSE \E methodDef \in getMethodByName(assembly, q.namespaceName,
                                                      q.typeName, q.methodName) :
                       LET methodToCall ==
                               Method(assemblyName, assembly,
                                      getTokenOfTableEntry(assembly, MethodDefID, methodDef),
                                      opName, 0)
                       IN  IF methodDef = Crashed
                           THEN CrashProcess(op) /\ UNCHANGED << m_stack, heapVars >>
                           ELSE IF methodDef = Null
                           THEN Throw("MemberNotFound", op) /\ UNCHANGED << m_stack, heapVars >>
                           ELSE IF ~isNew
                           THEN enterCallee(f, methodToCall, op)
                                /\ UNCHANGED << m_stack, heapVars >>
                           ELSE \E typeDef \in getTypeDefOfMethod(assembly, methodDef) :
                                  \E garbageRead \in BOOLEAN :
                                    IF \/ typeDef = Crashed
                                       \/ typeDef = Null
                                       \/ (typeDef = OutOfRange /\ ~garbageRead)
                                    THEN CrashProcess(op) /\ UNCHANGED << m_stack, heapVars >>
                                    ELSE allocateAndEnter(f, methodToCall, op,
                                             IF typeDef = OutOfRange THEN 0
                                             ELSE Assembly_getTypeSize(assembly, typeDef))

\* Runtime::call(method, token)
call(f, a, token) ==
    /\ UNCHANGED << staticVars, fixedVars >>
    /\ CASE token.id = MethodDefID -> invokeMethodDef(f, a, token, "call", FALSE)
         [] token.id = MemberRefID -> invokeMemberRef(f, a, token, "call", FALSE)
         [] OTHER -> /\ Throw("InvalidCallToken",
                              Op("call", "Invalid", TRUE, "none", << >>, FALSE))
                     /\ UNCHANGED << m_stack, heapVars, regVars >>

\* newobj taking every token that is no MemberRef for a MethodDef
newobj_NoDefault(f, a, token) ==
    /\ UNCHANGED << staticVars, fixedVars >>
    /\ CASE token.id = MemberRefID -> invokeMemberRef(f, a, token, "newobj", TRUE)
         [] OTHER -> invokeMethodDef(f, a, token, "newobj", TRUE)

\* a newobj that allocates the object before it looks at the token
newobj_AllocatesFirst(f, a, token) ==
    /\ UNCHANGED << staticVars, fixedVars >>
    /\ CASE token.id = MethodDefID -> invokeMethodDef(f, a, token, "newobj", TRUE)
         [] token.id = MemberRefID -> invokeMemberRef(f, a, token, "newobj", TRUE)
         [] OTHER -> /\ Throw("InvalidCallToken",
                              Op("newobj", "Invalid", TRUE, "none", << >>, FALSE))
                     /\ m_heap' = createHeapObject(m_heap, m_heapKey, 0).heap
                     /\ m_heapKey' = createHeapObject(m_heap, m_heapKey, 0).heapKey
                     /\ UNCHANGED << m_stack, regVars >>

\* Runtime::newobj(method, token)
newobj(f, a, token) ==
    /\ UNCHANGED << staticVars, fixedVars >>
    /\ CASE token.id = MethodDefID -> invokeMethodDef(f, a, token, "newobj", TRUE)
         [] token.id = MemberRefID -> invokeMemberRef(f, a, token, "newobj", TRUE)
         [] OTHER -> /\ Throw("InvalidCallToken",
                              Op("newobj", "Invalid", TRUE, "none", << >>, FALSE))
                     /\ UNCHANGED << m_stack, heapVars, regVars >>

(***************************************************************************)
(* The handlers that touch only the stack and the frame.                   *)
(***************************************************************************)
stackOnly == << regVars, staticVars, heapVars, fixedVars >>

\* Runtime::ldc<T>(value), Runtime::ldstr: m_stack.push<T>(value)
ldc(f, opName, T, value) ==
    /\ PushModelled(m_stack, T)
    /\ UNCHANGED stackOnly
    /\ \E o \in Stack_push(m_stack, T, value) :
           /\ m_stack' = o.st
           /\ Finish(f, o, Op(opName, T, TRUE, "none", value, FALSE))

\* Runtime::pop()
pop(f) ==
    /\ UNCHANGED stackOnly
    /\ \E o \in Runtime_pop(m_stack) :
           /\ m_stack' = o.st
           /\ Finish(f, o, Op("pop", "none", TRUE, "none", o.ret, m_stack.tags = << >>))

\* method.getLocalVariable(id): the slot, an empty unique_ptr when nothing is stored
getLocalVariable(f, id) == IF id \in DOMAIN f.locals THEN f.locals[id] ELSE NullVar

\* a reset() that leaves the slot as it is
resetLocal_Keeps(f, id) == f

\* localVariable.reset()
resetLocal(f, id) ==
    [f EXCEPT !.locals = [i \in (DOMAIN f.locals) \ {id} |-> f.locals[i]]]

\* a stloc that pops but assigns only to an empty slot
stloc_KeepsOld(f, id) ==
    /\ UNCHANGED stackOnly
    /\ \E o \in createVariableFromStackContent(m_stack) :
           LET op == Op("stloc", id, TRUE, "none", o.ret, m_stack.tags = << >>)
           IN  /\ m_stack' = o.st
               /\ IF o.crash \/ o.err # "none" THEN Finish(f, o, op)
                  ELSE Continue([f EXCEPT !.locals = f.locals @@ (id :> o.ret)], op)

\* Runtime::stloc(method, id).  An id outside the array is a write behind it.
stloc(f, id) ==
    /\ UNCHANGED stackOnly
    /\ \E o \in createVariableFromStackContent(m_stack) :
       \E smashed \in BOOLEAN :
           LET op == Op("stloc", id, TRUE, "none", o.ret, m_stack.tags = << >>)
           IN  /\ m_stack' = o.st
               /\ IF o.crash \/ o.err # "none" THEN Finish(f, o, op)
                  ELSE IF id >= NumLocals /\ smashed THEN CrashProcess(op)
                  ELSE Continue([f EXCEPT !.locals = (id :> o.ret) @@ f.locals], op)

\* Runtime::ldloc(method, id)
ldloc(f, id) ==
    LET localVariable == getLocalVariable(f, id)
    IN  /\ UNCHANGED stackOnly
        /\ StoreModelled(m_stack, localVariable)
        /\ \E o \in storeVariableOnStack(m_stack, localVariable) :
               /\ m_stack' = o.st
               /\ Finish(resetLocal(f, id), o,
                         Op("ldloc", id, TRUE, "none", localVariable, FALSE))

\* Runtime::ldloca(method, id).  An id outside the array reads the pointer
\* behind it: the process faults, or null or some other bytes are pushed.
ldloca(f, id) ==
    IF id < NumLocals
    THEN ldc(f, "ldloca", "UnmanagedPointer", LocalAddress(id, getLocalVariable(f, id)))
    ELSE \E way \in {"crash", "null", "garbage"} :
             CASE way = "crash" ->
                      /\ UNCHANGED << m_stack, stackOnly >>
                      /\ CrashProcess(Op("ldloca", "UnmanagedPointer", TRUE, "none", << >>, FALSE))
               [] way = "null" -> ldc(f, "ldloca", "UnmanagedPointer", Zeros(8))
               [] way = "garbage" ->
                      ldc(f, "ldloca", "UnmanagedPointer", << 255, 255, 255, 255, 0, 0, 0, 0 >>)

\* Runtime::ldarg(method, id), Runtime::nop()
ldarg(f, opName) ==
    /\ UNCHANGED << m_stack, stackOnly >>
    /\ Continue(f, Op(opName, "none", TRUE, "none", << >>, FALSE))

\* Runtime::brk(): ::raise(SIGILL) ends the process
brk(f) ==
    /\ UNCHANGED << m_stack, stackOnly >>
    /\ CrashProcess(Op("brk", "none", TRUE, "none", << >>, FALSE))

\* an offsetProgramCounter that takes the offset from the start of the instruction
offsetProgramCounter_FromStart(f, programCounter) == [f EXCEPT !.pc = f.pc - 2 + programCounter]

\* Method::offsetProgramCounter(programCounter): the sum as an unsigned 64-bit
\* number; a sum below zero is kept as it is and stands for the wrapped value
offsetProgramCounter(f, programCounter) == [f EXCEPT !.pc = f.pc + programCounter]

\* Runtime::br(method, offset)
br(f, offset) ==
    /\ UNCHANGED << m_stack, stackOnly >>
    /\ Continue(offsetProgramCounter(f, offset),
                Op("br", offset, TRUE, "none", << >>, FALSE))

\* the i32 an i8 operand converts to, as bytes
SignExtend(b) == IF b >= 128 THEN << b, 255, 255, 255 >> ELSE << b, 0, 0, 0 >>

\* the double a float operand converts to, as bytes (zero and normal numbers)
FloatToDouble(b) ==
    LET sign == b[4] \div 128
        exponent == (b[4] % 128) * 2 + (b[3] \div 128)
        mantissa == (b[3] % 128) * 65536 + b[2] * 256 + b[1]
        exponent11 == IF exponent = 0 THEN 0 ELSE exponent - 127 + 1023
        high20 == mantissa \div 8
    IN  << 0, 0, 0, (mantissa % 8) * 32,
           high20 % 256, (high20 \div 256) % 256,
           (exponent11 % 16) * 16 + (high20 \div 65536),
           sign * 128 + (exponent11 \div 16) >>

\* a Ret that goes on with the instruction after it
ret_FallsThrough(f) ==
    /\ UNCHANGED << m_stack, stackOnly >>
    /\ Continue(f, Op("ret", f.kind, TRUE, "none", << >>, FALSE))

\* `case Ret: return;` of executeInstructions
ret(f) ==
    /\ UNCHANGED << m_stack, stackOnly >>
    /\ Leave(Op("ret", f.kind, TRUE, "none", << >>, FALSE))

\* the default case of executeInstructions
unimplemented(f, ins) ==
    /\ UNCHANGED << m_stack, stackOnly >>
    /\ Throw("UnimplementedOpcode", Op("unimplemented", ins.byte, TRUE, "none", << >>, FALSE))

(***************************************************************************)
(* Runtime::executeInstructions: one turn of its loop.  f is the frame     *)
(* after getInstructions() has advanced the program counter.               *)
(***************************************************************************)
handle(f, a, code, ins) ==
    CASE ins.op = "Nop" -> ldarg(f, "nop")
      [] ins.op = "Brk" -> brk(f)
      [] ins.op = "Call" -> call(f, a, GetToken(code, ins))
      [] ins.op = "Ldstr" ->
           ldc(f, "ldstr", "ManagedPointer", GetBytes(code, ins, 4) \o Zeros(4))
      [] ins.op = "Ldloca_s" -> ldloca(f, GetU8(code, ins))
      [] ins.op \in {"Ldarg_0", "Ldarg_1", "Ldarg_2", "Ldarg_3", "Ldarg", "Ldarg_s"} ->
           ldarg(f, "ldarg")
      [] ins.op \in {"Stloc_0", "Stloc_1", "Stloc_2", "Stloc_3"} -> stloc(f, ins.byte - 10)
      [] ins.op = "Stloc" -> stloc(f, GetU8(code, ins))
      [] ins.op = "Stloc_s" -> stloc(f, GetU16(code, ins))
      [] ins.op \in {"Ldloc_0", "Ldloc_1", "Ldloc_2", "Ldloc_3"} -> ldloc(f, ins.byte - 6)
      [] ins.op = "Ldloc" -> ldloc(f, GetU8(code, ins))
      [] ins.op = "Ldloc_s" -> ldloc(f, GetU16(code, ins))
      [] ins.op = "Ret" -> ret(f)
      [] ins.op = "Br" -> br(f, GetI32(code, ins))
      [] ins.op = "Br_s" -> br(f, GetI8(code, ins))
      [] ins.op = "Ldsflda" -> staticField(f, a, "ldsflda", GetToken(code, ins))
      [] ins.op = "Ldsfld" -> staticField(f, a, "ldsfld", GetToken(code, ins))
      [] ins.op = "Ldc_i4" -> ldc(f, "ldc", "i32", GetBytes(code, ins, 4))
      [] ins.op = "Ldc_i4_s" -> ldc(f, "ldc", "i32", SignExtend(GetU8(code, ins)))
      [] ins.op = "Ldc_i8" -> ldc(f, "ldc", "i64", GetBytes(code, ins, 8))
      [] ins.op = "Ldc_r4" -> ldc(f, "ldc", "Float", FloatToDouble(GetBytes(code, ins, 4)))
      [] ins.op = "Ldc_r8" -> ldc(f, "ldc", "Float", GetBytes(code, ins, 8))
      [] ins.op = "Ldc_i4_n" -> ldc(f, "ldc", "i32", I32(ins.byte - 22))
      [] ins.op = "Ldc_i4_m1" -> ldc(f, "ldc", "i32", << 255, 255, 255, 255 >>)
      [] ins.op = "Stsfld" -> staticField(f, a, "stsfld", GetToken(code, ins))
      [] ins.op = "Pop" -> pop(f)
      [] ins.op = "Newobj" -> newobj(f, a, GetToken(code, ins))
      [] OTHER -> unimplemented(f, ins)

\* a loop condition that compares the program counter as a signed number
hasInstruction_Signed(f, bytes) == f.pc < Len(bytes)

\* Method::getInstructions(): is there an instruction at the program counter?
hasInstruction(f, bytes) == f.pc >= 0 /\ f.pc < Len(bytes)

Dispatch ==
    /\ status = "running"
    /\ callStack # << >>
    /\ Top.pend = NoPend
    /\ LET bytes == getByteCode(Top)
           instruction == Instruction(bytes, Top.pc)
       IN  /\ hasInstruction(Top, bytes)
           /\ handle([Top EXCEPT !.pc = Top.pc + instruction.len], Asm(Top.asm),
                     bytes, instruction)

\* the loop of executeInstructions ends because the generator is exhausted
EndOfCode ==
    /\ status = "running"
    /\ callStack # << >>
    /\ Top.pend = NoPend
    /\ ~hasInstruction(Top, getByteCode(Top))
    /\ UNCHANGED << m_stack, stackOnly >>
    /\ Leave(Op("end", Top.kind, TRUE, "none", << >>, FALSE))

\* loadStaticField returns from the .cctor it ran; the handler goes on
Resume ==
    /\ status = "running"
    /\ callStack # << >>
    /\ Top.pend # NoPend
    /\ UNCHANGED << regVars, heapVars, fixedVars, m_initializedTypes, cctorCount >>
    /\ accessStatic([Top EXCEPT !.pend = NoPend], Top.pend.op, << Top.asm, Top.pend.field >>)

\* a process whose heap has been written behind the stack buffer can die at
\* any later point
Crash ==
    /\ status = "running"
    /\ m_stack.overrun
    /\ UNCHANGED << m_stack, stackOnly >>
    /\ CrashProcess(Op("crash", "none", TRUE, "none", << >>, FALSE))

(***************************************************************************)
(* The embedding interface: run, addAssemblyLoader, addAssembly.           *)
(***************************************************************************)
Idle == status \in {"idle", "returned", "error"}

\* m_assemblies.emplace(assemblyName, assembly): an existing entry is kept
emplace(assemblies, assemblyName, assembly) ==
    IF assemblyName \in DOMAIN assemblies THEN assemblies
    ELSE (assemblyName :> assembly) @@ assemblies

\* Runtime::run(assembly), up to its call of executeInstructions
Run(assembly) ==
    /\ Idle
    /\ runs < MaxRuns
    /\ LET assemblyName == Assemblies[assembly].module
           registry == emplace(m_assemblies, assemblyName, assembly)
           newExecutable == Assemblies[registry[assemblyName]]
           method == Method(assemblyName, newExecutable, newExecutable.entryPoint,
                            "entry", 0)
       IN  /\ m_assemblies' = registry
           /\ m_stack' = Stack(newExecutable.sizeOfStackReserve)
           /\ m_methodStack' = Append(m_methodStack, method.token)
           /\ callStack' = << method >>
    /\ runs' = runs + 1
    /\ status' = "running"
    /\ lastError' = "none"
    /\ runResult' = << >>
    /\ lastOp' = Op("run", assembly, TRUE, "none", << >>, FALSE)
    /\ UNCHANGED << m_assemblyLoaders, loaderCalls, staticVars, heapVars, entry, marks >>

\* Runtime::addAssemblyLoader(function)
addAssemblyLoader(function) ==
    /\ Idle
    /\ Len(m_assemblyLoaders) < MaxLoaders
    /\ m_assemblyLoaders' = Append(m_assemblyLoaders, function)
    /\ lastOp' = Op("addAssemblyLoader", function, TRUE, "none", << >>, FALSE)
    /\ UNCHANGED << m_stack, m_assemblies, loaderCalls, staticVars, heapVars, fixedVars,
                    callStack, status, lastError, runResult >>

\* Runtime::addAssembly(assembly), for the assembly B
addAssembly ==
    /\ Idle
    /\ m_assemblies' = emplace(m_assemblies, AssemblyB.module, "B")
    /\ lastOp' = Op("addAssembly", "B", TRUE, "none", << >>, FALSE)
    /\ UNCHANGED << m_stack, m_assemblyLoaders, loaderCalls, staticVars, heapVars, fixedVars,
                    callStack, status, lastError, runResult >>

(***************************************************************************)
(* The entrypoint bodies the model runs: the scenarios, and every sequence *)
(* of at most MaxBody instructions of the alphabet, each followed by Ret.  *)
(***************************************************************************)
Alphabet ==
    { Ldc_i4_s(42), Ldc_i8(1, 2), Pop, Ldsfld(FieldF1), Stsfld(FieldF1),
      Call(RefBM), Call(RefXM) }

RECURSIVE Bodies(_)
Bodies(n) ==
    IF n = 0 THEN {<< >>}
    ELSE Bodies(n - 1) \cup {b \o i : b \in Bodies(n - 1), i \in Alphabet}

Scenarios ==
    { Ret,
      Concat(<< Ldc_i4_7, Pop, Ret >>),
      Concat(<< Ldc_i4_s(42), << 10 >>, << 6 >>, Pop, Ret >>),
      Concat(<< Ldsfld(FieldF1), Pop, Ret >>),
      Concat(<< Call(RefBM), Ret >>),
      Concat(<< Br_s(2), << 22 >>, Pop, Ret >>),
      Concat(<< Br_s(1), Ret >>),
      Concat(<< Ldsflda(FieldF1), Pop, Ret >>),
      Concat(<< Ldsfld(FieldF2), Ldsfld(FieldF1), Ret >>),
      Concat(<< Ldc_i4_7, Stsfld(FieldF2), Ldsfld(FieldF2), Ldsfld(FieldF2), Ret >>),
      Concat(<< Ldc_i8(0, 3), Stsfld(FieldF1), Ldsfld(FieldF1), Ret >>),
      Concat(<< Ldsfld(FieldH), Ret >>),
      Concat(<< Newobj(RefBCtor), Pop, Ret >>),
      Concat(<< Newobj(RefBCtor), Call(RefXM), Ret >>),
      Concat(<< Call(RefBMissing), Ret >>),
      Concat(<< (<< 114 >> \o TokenBytes(Token(UserStringID, 1))), Pop, Ret >>),
      Concat(<< Call(Token(MethodDefID, 2)), Call(RefBM), Ret >>),
      Concat(<< Ldc_i4_7, Call(Token(FieldID, 1)), Ret >>),
      Concat(<< Newobj(Token(TypeDefID, 3)), Ret >>),
      Concat(<< Ldc_i4_7, Newobj(Token(UserStringID, 1)), Ret >>),
      << 88, 42 >>,
      Concat(<< Ldc_i4_7, Call(Token(MethodDefID, 5)), Pop, Ret >>),
      \* locals: 11 is stloc.1, 7 is ldloc.1
      Concat(<< Ldc_i4_s(42), << 10 >>, Ldc_i8(1, 2), << 10 >>, Ldc_i4_7, << 11 >>,
                << 6 >>, Pop, << 7 >>, Pop, Ret >>),
      \* 18 is ldloca.s: the address of slot 255
      Concat(<< << 18, 255 >>, Pop, Ret >>),
      \* 19 is stloc.s and 17 ldloc.s, with a one-byte operand; 254 14 is stloc
      \* and 254 12 ldloc, with a two-byte operand
      Concat(<< Ldc_i4_7, << 19, 1 >>, << 17, 1 >>, Ret >>),
      Concat(<< Ldc_i4_7, << 19, 1 >>, << 0 >>, << 17, 1 >>, << 0 >>, Ret >>),
      Concat(<< Ldc_i4_7, << 254, 14, 2, 1 >>, << 254, 12, 2, 1 >>, Ret >>),
      \* branches: forward over the Ret and back to it, by br.s and by br (56,
      \* with a four-byte offset); by 0; and to below the start of the code
      Concat(<< Br_s(1), Ret, Br_s(-3) >>),
      Concat(<< Br_s(1), Ret, << 56, 250, 255, 255, 255 >> >>),
      Concat(<< Br_s(0), << 56, 0, 0, 0, 0 >>, Ret >>),
      Concat(<< Ldc_i4_7, Br_s(-5), Ret >>),
      Concat(<< Ldc_i4_7, Br_s(5), Ret >>),
      \* code bytes after the Ret
      Concat(<< Ldc_i4_7, Ret, Pop, Ret >>),
      \* Newobj and Call of the same MethodDef and of the same MemberRef
      Concat(<< Newobj(Token(MethodDefID, 5)), Ret >>),
      Concat(<< Newobj(Token(MethodDefID, 2)), Pop, Ret >>),
      Concat(<< Ldc_i4_7, Call(RefBCtor), Ret >>),
      \* Main stores a local and calls Main
      Concat(<< Ldc_i4_7, << 10 >>, Call(Token(MethodDefID, 1)), Ret >>),
      \* MemberRef 5 names a type that B does not have
      Concat(<< Newobj(RefBCtor), Ldc_i4_7, Newobj(Token(MemberRefID, 5)), Ret >>),
      Concat(<< Ldc_i4_7, Call(Token(MemberRefID, 5)), Ret >>),
      \* a load of a local that was never stored, and of one already loaded
      Concat(<< Ldc_i4_7, << 6 >>, Pop, Ret >>),
      Concat(<< Ldc_i4_7, << 10 >>, << 6 >>, << 6 >>, Ret >>) }

EntryBodies == Scenarios \cup {b \o Ret : b \in Bodies(MaxBody)}

Init ==
    /\ m_stack = Stack(0)
    /\ m_assemblies = EmptyMap
    /\ m_assemblyLoaders = << >>
    /\ m_methodStack = << >>
    /\ m_initializedTypes = {}
    /\ m_staticVariables = EmptyMap
    /\ m_heapKey = 0
    /\ m_heap = EmptyMap
    /\ callStack = << >>
    /\ status = "idle"
    /\ lastError = "none"
    /\ runResult = << >>
    /\ runs = 0
    /\ entry \in EntryBodies
    /\ lastOp = NoOp
    /\ cctorCount = [t \in TypeIds |-> 0]
    /\ loaderCalls = [p \in (1..MaxLoaders) \X AssemblyNames |-> 0]
    /\ lastStored = [fld \in FieldIds |-> NullVar]
    /\ marks = << >>

Next ==
    \/ \E assembly \in {"A", "A2"} : Run(assembly)
    \/ \E function \in LoaderKinds : addAssemblyLoader(function)
    \/ addAssembly
    \/ Dispatch
    \/ EndOfCode
    \/ Resume
    \/ Crash

Spec == Init /\ [][Next]_vars

(***************************************************************************)
(* The stack on its own: push<T>(value) and pop<T>() called directly on a  *)
(* Stack of StackCap bytes, in any order and with any of the types.        *)
(***************************************************************************)
runtimeVars ==
    << m_assemblies, m_assemblyLoaders, m_methodStack, m_initializedTypes,
       m_staticVariables, m_heapKey, m_heap, callStack, lastError, runResult, runs,
       entry, cctorCount, loaderCalls, lastStored >>

\* the stack is followed while its pointer is inside the buffer and the process lives
StackUsable == status # "crashed" /\ m_stack.sp >= 0

\* what marks keeps of a push: the type, the value, and the pointer and the tags
\* the push found
Mark(T, value, st) == [T |-> T, value |-> value, sp |-> st.sp, tags |-> st.tags]

push(T, value) ==
    /\ StackUsable
    /\ PushModelled(m_stack, T)
    /\ \E o \in Stack_push(m_stack, T, value) :
           /\ m_stack' = o.st
           /\ status' = IF o.crash THEN "crashed" ELSE status
           /\ marks' = IF o.crash THEN marks ELSE Append(marks, Mark(T, value, m_stack))
           /\ lastOp' = Op("push", T, ~o.crash, o.err, value, FALSE)
    /\ UNCHANGED runtimeVars

popT(T) ==
    /\ StackUsable
    /\ \E o \in Stack_pop(m_stack, T) :
           /\ m_stack' = o.st
           /\ status' = IF o.crash THEN "crashed" ELSE status
           /\ marks' = IF o.crash \/ o.err # "none" \/ marks = << >> THEN marks
                       ELSE Front(marks)
           /\ lastOp' = Op("pop", T, ~o.crash, o.err, o.ret, m_stack.tags = << >>)
    /\ UNCHANGED runtimeVars

StackInit ==
    /\ m_stack = Stack(StackCap)
    /\ m_assemblies = EmptyMap
    /\ m_assemblyLoaders = << >>
    /\ m_methodStack = << >>
    /\ m_initializedTypes = {}
    /\ m_staticVariables = EmptyMap
    /\ m_heapKey = 0
    /\ m_heap = EmptyMap
    /\ callStack = << >>
    /\ status = "idle"
    /\ lastError = "none"
    /\ runResult = << >>
    /\ runs = 0
    /\ entry = Ret
    /\ lastOp = NoOp
    /\ cctorCount = [t \in TypeIds |-> 0]
    /\ loaderCalls = [p \in (1..MaxLoaders) \X AssemblyNames |-> 0]
    /\ lastStored = [fld \in FieldIds |-> NullVar]
    /\ marks = << >>

StackNext ==
    \/ \E T \in CppTypes : \E value \in ValuesOf(T) : push(T, value)
    \/ \E T \in CppTypes : popT(T)

StackSpec == StackInit /\ [][StackNext]_vars

(***************************************************************************)
(* Properties of lazy type initialisation and of the static-field store.   *)
(***************************************************************************)
StaticOps == {"ldsfld", "ldsflda", "stsfld"}

\* the type that declares a field of the store
OwnerType(fieldId) ==
    << fieldId[1], getTypeDefOfField(Assemblies[fieldId[1]], fieldId[2]) >>

T1 == << "A", 3 >>
T2 == << "A", 4 >>
F1 == << "A", 1 >>
F2 == << "A", 2 >>

\* C1: over the lifetime of the Runtime (all run() calls, accesses from the
\* entrypoint, from the type's own .cctor and from another type's .cctor), a
\* frame for the .cctor of a type is entered at most once.
C1_CctorAtMostOnce == \A t \in TypeIds : cctorCount[t] <= 1

\* the second run() has read F1 again; in the first, the .cctor of one type ran
\* inside the .cctor of the other and both touched fields of both types
C1_Witness ==
    /\ runs = 2
    /\ lastOp.op = "ldsfld" /\ lastOp.done /\ lastOp.err = "none" /\ lastOp.arg = F1
    /\ lastOp.value = Variable("Int32", I32(99))
    /\ Len(callStack) = 1
    /\ cctorCount[T1] = 1
    /\ cctorCount[T2] = 1

\* the step reads or writes the store entry of the field lastOp' names
StaticAccessStep ==
    lastOp'.op \in StaticOps /\ lastOp'.done /\ lastOp'.arg \in FieldIds

\* C2: a step in which Ldsfld, Ldsflda or Stsfld reads or writes the store entry
\* of a field, and every step that changes the store, starts in a state where
\* the .cctor frame of the field's type has been entered already.
C2_CctorPrecedesAccess ==
    [][/\ StaticAccessStep => cctorCount[OwnerType(lastOp'.arg)] >= 1
       /\ \A fld \in FieldIds :
              staticEntry(m_staticVariables', fld) # staticEntry(m_staticVariables, fld)
                  => cctorCount[OwnerType(fld)] >= 1]_vars

\* the entrypoint has read F2, whose type's .cctor ran first
C2_Witness ==
    /\ lastOp.op = "ldsfld" /\ lastOp.done /\ lastOp.err = "none" /\ lastOp.arg = F2
    /\ Len(callStack) = 1
    /\ Top.kind = "entry"
    /\ cctorCount[T2] = 1
    /\ F2 \in DOMAIN m_staticVariables

StsfldStep == lastOp'.op = "stsfld" /\ lastOp'.done /\ lastOp'.err = "none"
LdsfldStep == lastOp'.op = "ldsfld" /\ lastOp'.done /\ lastOp'.err = "none"

\* C3: a Stsfld(F) that finishes removes exactly the top element of the stack
\* and makes its tag and payload the value of F; a Ldsfld(F) that finishes
\* pushes exactly the tag and payload the last finished Stsfld(F) stored and
\* leaves the value of F as it was.  In particular the Ldsfld(F1) of the
\* entrypoint { Ldsfld F1; Pop; Ret } pushes the Int32 99 that T1's .cctor stored.
C3_StoreThenLoad ==
    [][/\ StsfldStep =>
              /\ m_stack.tags # << >>
              /\ m_stack'.tags = Front(m_stack.tags)
              /\ m_stack'.sp = m_stack.sp - getTypeSize(TopElement(m_stack).type)
              /\ m_staticVariables'[lastOp'.arg] = TopElement(m_stack)
              /\ lastStored'[lastOp'.arg] = TopElement(m_stack)
              /\ \A fld \in (DOMAIN m_staticVariables) \ {lastOp'.arg} :
                     m_staticVariables'[fld] = m_staticVariables[fld]
       /\ LdsfldStep =>
              /\ lastStored[lastOp'.arg] # NullVar
              /\ TopElement(m_stack') = lastStored[lastOp'.arg]
              /\ m_stack'.tags = Append(m_stack.tags, lastStored[lastOp'.arg].type)
              /\ m_stack'.sp = m_stack.sp + getTypeSize(lastStored[lastOp'.arg].type)
              /\ m_staticVariables[lastOp'.arg] = lastStored[lastOp'.arg]
              /\ m_staticVariables' = m_staticVariables
              /\ lastStored' = lastStored
       /\ (LdsfldStep /\ lastOp'.arg = F1 /\ Len(callStack) = 1
               /\ entry = Concat(<< Ldsfld(FieldF1), Pop, Ret >>))
              => TopElement(m_stack') = Variable("Int32", I32(99))]_vars

\* the entrypoint stored an Int64 to F1 over the 99 of the .cctor and has read
\* it back
C3_Witness ==
    /\ entry = Concat(<< Ldc_i8(0, 3), Stsfld(FieldF1), Ldsfld(FieldF1), Ret >>)
    /\ lastOp.op = "ldsfld" /\ lastOp.done /\ lastOp.err = "none" /\ lastOp.arg = F1
    /\ m_stack.tags = << "Int64" >>
    /\ TopElement(m_stack) = Variable("Int64", Wide(0, 3))
    /\ m_staticVariables[F1] = Variable("Int64", Wide(0, 3))
    /\ cctorCount[T1] = 1

(***************************************************************************)
(* Properties of the evaluation stack.                                     *)
(***************************************************************************)
\* C4: in every reachable state of the stack, after successful and failed
\* pushes and pops, the distance of the write pointer from the base equals the
\* sum of the sizes of the tags.
C4_PointerMatchesTags == getUsedStackSize(m_stack) = SumTypeSizes(m_stack.tags)

PopStep == lastOp'.op = "pop" /\ lastOp'.done

\* C5: a pop<T>() that directly follows a push<T>(v) succeeds, returns the
\* bytes of v and puts the write pointer and the tags back where the push found
\* them; and every successful pop returns the value of, and restores the
\* position found by, the push it balances.
C5_PushPopRoundTrip ==
    [][/\ (PopStep /\ lastOp.op = "push" /\ lastOp.done /\ lastOp'.arg = lastOp.arg) =>
              /\ lastOp'.err = "none"
              /\ lastOp'.value = lastOp.value
              /\ m_stack'.sp = m_stack.sp - SizeOf(lastOp.arg)
              /\ m_stack'.tags = Front(m_stack.tags)
       /\ (PopStep /\ lastOp'.err = "none" /\ marks # << >>) =>
              /\ lastOp'.arg = marks[Len(marks)].T
              /\ lastOp'.value = marks[Len(marks)].value
              /\ m_stack'.sp = marks[Len(marks)].sp
              /\ m_stack'.tags = marks[Len(marks)].tags
       /\ (marks' = << >> /\ m_stack'.sp >= 0) =>
              m_stack'.sp = 0 /\ m_stack'.tags = << >>]_vars

\* an i64 pushed over an i32 has been popped again, with its bytes
C5_Witness ==
    /\ lastOp.op = "pop" /\ lastOp.done /\ lastOp.err = "none" /\ lastOp.arg = "i64"
    /\ lastOp.value = Wide(1, 2)
    /\ Len(marks) = 1
    /\ m_stack.tags = << "Int32" >>
    /\ m_stack.sp = 4

\* C6: pop<T>() on a non-empty stack whose top tag is not the tag of T fails
\* with TypeMismatch, whatever the pair of tag and T, and leaves the stack as
\* it was.
C6_MismatchIsTypeMismatch ==
    [][(/\ PopStep
        /\ m_stack.tags # << >>
        /\ ~m_stack.broken
        /\ m_stack.tags[Len(m_stack.tags)] # getValueType(lastOp'.arg))
       => (lastOp'.err = "TypeMismatch" /\ m_stack' = m_stack)]_vars

PoppingOps == {"pop", "stloc", "stsfld"}

\* C7: a pop on an empty stack (pop<T>, and the Pop, Stloc and Stsfld
\* instructions) fails with Underflow and leaves the stack empty, its write
\* pointer at the base.
C7_EmptyPopUnderflows ==
    (lastOp.op \in PoppingOps /\ lastOp.done /\ lastOp.onEmpty)
        => /\ lastOp.err = "Underflow"
           /\ m_stack.sp = 0
           /\ m_stack.tags = << >>
           /\ ~m_stack.broken

\* C8: the used bytes of the stack never exceed the capacity it was given in
\* run(), and a push that does not fit fails with StackOverflow, writing nothing.
C8_WithinCapacity ==
    /\ getUsedStackSize(m_stack) <= m_stack.cap
    /\ ~m_stack.overrun

(***************************************************************************)
(* Properties of the loader chain.                                         *)
(***************************************************************************)
\* the step is a Call or a Newobj through a MemberRef that names lastOp'.arg
MemberRefStep == lastOp'.op \in {"call", "newobj"} /\ lastOp'.arg \in AssemblyNames

\* the positions of the loaders that have a value for the name
Suppliers(name) ==
    {i \in 1..Len(m_assemblyLoaders) : loaderFunction(m_assemblyLoaders[i], name) # NoAssembly}

\* the position of the last loader to be asked for the name
LastAsked(name) ==
    IF Suppliers(name) = {} THEN Len(m_assemblyLoaders)
    ELSE CHOOSE i \in Suppliers(name) : \A j \in Suppliers(name) : i <= j

\* C9: a Call or Newobj through a MemberRef whose assembly name is not in the
\* registry invokes the loaders in the order they were added, up to and
\* including the first that returns a value, installs that value under the
\* name and invokes no later loader; when the name is in the registry it
\* invokes no loader and leaves the registry as it is.
C9_LoadersInOrder ==
    [][MemberRefStep =>
          LET name == lastOp'.arg
              last == LastAsked(name)
          IN  IF name \in DOMAIN m_assemblies
              THEN /\ lastOp'.value = << >>
                   /\ loaderCalls' = loaderCalls
                   /\ m_assemblies' = m_assemblies
              ELSE /\ lastOp'.value = [i \in 1..last |-> i]
                   /\ loaderCalls' =
                          [p \in DOMAIN loaderCalls |->
                              IF p[2] = name /\ p[1] <= last THEN loaderCalls[p] + 1
                              ELSE loaderCalls[p]]
                   /\ IF Suppliers(name) = {}
                      THEN m_assemblies' = m_assemblies /\ lastOp'.err = "AssemblyNotFound"
                      ELSE /\ DOMAIN m_assemblies' = DOMAIN m_assemblies \cup {name}
                           /\ m_assemblies'[name] =
                                  loaderFunction(m_assemblyLoaders[last], name)
                           /\ \A n \in DOMAIN m_assemblies :
                                  m_assemblies'[n] = m_assemblies[n]]_vars

\* B was missing, the first loader had nothing, the second supplied it and the
\* third was not asked; then B's M was entered
C9_Witness ==
    /\ lastOp.op = "call" /\ lastOp.arg = "B" /\ lastOp.err = "none"
    /\ lastOp.value = << 1, 2 >>
    /\ m_assemblyLoaders \in {<< "Empty", "HasB" >>, << "Empty", "HasB", "HasB" >>,
                              << "Empty", "HasB", "Empty" >>}
    /\ "B" \in DOMAIN m_assemblies
    /\ Len(callStack) = 2
    /\ Top.asm = "B"

\* C10: over the lifetime of the Runtime, across its run() calls, a loader is
\* invoked at most once for an assembly name.
C10_LoaderOncePerName == \A p \in DOMAIN loaderCalls : loaderCalls[p] <= 1

(***************************************************************************)
(* Properties of the failures of Call and Newobj.                          *)
(***************************************************************************)
\* C11: a Call or Newobj through a MemberRef whose assembly name is not in the
\* registry, with no loader registered or every loader returning nothing,
\* fails with AssemblyNotFound: the error leaves run(), no callee frame is
\* entered, and the registry, the stack and the heap are as they were.
C11_AssemblyNotFound ==
    [][(/\ MemberRefStep
        /\ lastOp'.arg \notin DOMAIN m_assemblies
        /\ Suppliers(lastOp'.arg) = {})
       => /\ lastOp'.err = "AssemblyNotFound"
          /\ lastError' = "AssemblyNotFound"
          /\ status' = "error"
          /\ callStack' = << >>
          /\ m_assemblies' = m_assemblies
          /\ m_stack' = m_stack
          /\ m_heap' = m_heap
          /\ m_heapKey' = m_heapKey]_vars

\* a Newobj of [B]Ns.C::.ctor found B missing, asked both loaders in vain and
\* failed without allocating
C11_Witness ==
    /\ lastOp.op = "newobj" /\ lastOp.arg = "B" /\ lastOp.err = "AssemblyNotFound"
    /\ lastOp.value = << 1, 2 >>
    /\ status = "error"
    /\ callStack = << >>
    /\ "B" \notin DOMAIN m_assemblies
    /\ m_heapKey = 0
    /\ m_stack.tags = << >>

\* the qualified name that the Call or Newobj about to be dispatched refers to
CalledMember ==
    LET code == getByteCode(Top)
    IN  getQualifiedMemberName(Asm(Top.asm), GetToken(code, Instruction(code, Top.pc)))

\* the MethodDef rows in the method range of TypeDef row i: from its methodList
\* up to the next type's, the last type owning the rest of the table
OwnMethods(a, i) ==
    {m \in 1..Len(a.MethodDef) :
        /\ m >= a.TypeDef[i].methodList
        /\ i < Len(a.TypeDef) => m < a.TypeDef[i + 1].methodList}

\* does the assembly have a type of that namespace and name with, in its own
\* method range, a method of that name?
HasMember(a, q) ==
    \E i \in 1..Len(a.TypeDef) :
        /\ a.TypeDef[i].typeNamespace = q.namespaceName
        /\ a.TypeDef[i].typeName = q.typeName
        /\ \E m \in OwnMethods(a, i) : a.MethodDef[m].name = q.methodName

\* C12: a Call or Newobj through a MemberRef whose assembly is loaded but has no
\* type of the named namespace and name, or whose matching type has no method
\* of the named name in its own method range, fails with MemberNotFound: the
\* error leaves run() and no callee frame is entered.
C12_MemberNotFound ==
    [][(/\ MemberRefStep
        /\ lastOp'.arg \in DOMAIN m_assemblies'
        /\ ~HasMember(Assemblies[m_assemblies'[lastOp'.arg]], CalledMember))
       => /\ lastOp'.err = "MemberNotFound"
          /\ status' = "error"
          /\ callStack' = << >>]_vars


(***************************************************************************)
(* Properties of the dispatch loop.                                        *)
(***************************************************************************)
\* the instruction at the program counter of the executing frame
NextInstruction == Instruction(getByteCode(Top), Top.pc)
NextToken == GetToken(getByteCode(Top), NextInstruction)

\* the step is one turn of the loop of executeInstructions that dispatches an
\* instruction to its handler
DispatchStep ==
    /\ status = "running"
    /\ callStack # << >>
    /\ Top.pend = NoPend
    /\ hasInstruction(Top, getByteCode(Top))
    /\ lastOp'.op # "crash"

\* C13: a Call or Newobj whose token names neither the MethodDef nor the
\* MemberRef table fails with InvalidCallToken: no frame is entered, no loader
\* is invoked, and the stack, the heap and the registry are unchanged.
C13_InvalidCallToken ==
    [][(/\ DispatchStep
        /\ NextInstruction.op \in {"Call", "Newobj"}
        /\ NextToken.id \notin {MethodDefID, MemberRefID})
       => /\ lastOp'.err = "InvalidCallToken"
          /\ lastError' = "InvalidCallToken"
          /\ status' = "error"
          /\ callStack' = << >>
          /\ loaderCalls' = loaderCalls
          /\ m_stack' = m_stack
          /\ m_heap' = m_heap
          /\ m_heapKey' = m_heapKey
          /\ m_assemblies' = m_assemblies]_vars

\* a newobj of a UserString token has failed below a value that is still on
\* the stack, with a loader installed
C13_Witness ==
    /\ lastOp.op = "newobj" /\ lastOp.err = "InvalidCallToken"
    /\ status = "error" /\ callStack = << >>
    /\ m_stack.tags = << "Int32" >>
    /\ m_assemblyLoaders # << >>
    /\ m_heapKey = 0


\* the error kinds of the runtime: what a step records when it raises
Raises == lastOp'.err \notin {"none", "crash"}

\* C14: dispatching an opcode outside the handler set raises
\* UnimplementedOpcode, and an error of any kind is caught by no frame: the
\* step that raises it, at any depth, leaves no active frame in which a
\* further instruction could be dispatched, and the error leaves run().
C14_ErrorsLeaveRun ==
    [][/\ (DispatchStep /\ NextInstruction.op = "Other")
            => lastOp'.err = "UnimplementedOpcode"
       /\ Raises => /\ callStack' = << >>
                    /\ status' = "error"
                    /\ lastError' = lastOp'.err]_vars

\* the opcode add was dispatched in the frame of Bad, called from Main with a
\* value on the stack
C14_Witness ==
    /\ lastOp.op = "unimplemented" /\ lastOp.arg = 88
    /\ lastOp.err = "UnimplementedOpcode" /\ lastError = "UnimplementedOpcode"
    /\ entry = Concat(<< Ldc_i4_7, Call(Token(MethodDefID, 5)), Pop, Ret >>)
    /\ m_stack.tags = << "Int32" >>
    /\ status = "error" /\ callStack = << >>


(***************************************************************************)
(* Properties of run().                                                    *)
(***************************************************************************)
\* the step is a call of run(), up to the first dispatch
RunStep == lastOp'.op = "run"

\* C15: run(A) interns A under its module name and dispatches the entrypoint
\* of the assembly A that was passed, also when the registry already holds an
\* entry under A's module name.
C15_RunsPassedAssembly ==
    [][RunStep
       => LET passed == Assemblies[lastOp'.arg]
              frame == callStack'[1]
          IN  /\ passed.module \in DOMAIN m_assemblies'
              /\ Len(callStack') = 1
              /\ Assemblies[m_assemblies'[frame.asm]] = passed
              /\ frame.token = passed.entryPoint
              /\ frame.pc = 0]_vars


\* C16: whenever run() completes without error it returns 0, whatever is left
\* on the stack; and for the entrypoint bodies { ret } and { ldc.i4.7; pop; ret }
\* the used stack size at termination is 0.
C16_RunReturnsZero ==
    status = "returned"
        => /\ runResult = << 0 >>
           /\ (m_assemblies["A"] = "A" /\ entry \in {Ret, Concat(<< Ldc_i4_7, Pop, Ret >>)})
                  => getUsedStackSize(m_stack) = 0

\* run() has returned with two values left on the stack
C16_Witness ==
    /\ status = "returned" /\ runResult = << 0 >>
    /\ lastOp.op = "ret" /\ lastOp.arg = "entry"
    /\ m_stack.tags = << "Int32", "Int32" >>
    /\ getUsedStackSize(m_stack) = 8


(***************************************************************************)
(* The metadata accessors on their own: getTableEntry<T> and               *)
(* getTypeDefOfMethod applied to the tables of an assembly with any small  *)
(* numbers of TypeDef and MethodDef rows, and getBlob applied to a blob    *)
(* heap that holds the header of a blob of a given size.  marks holds the  *)
(* metadata: the methodList column, the number of MethodDef rows, the      *)
(* bytes of the blob heap, and the index and the size of the blob in it.   *)
(***************************************************************************)
MaxTypes == 3
MaxMethods == 3
MaxBlobDigit == 3
MaxBlobIndex == 2

\* the header that encodes the blob size L: 0xxxxxxx, 10xxxxxx xxxxxxxx, or
\* 110xxxxx xxxxxxxx xxxxxxxx xxxxxxxx, most significant byte first
EncodeBlobHeader(L) ==
    IF L < 2^7 THEN << L >>
    ELSE IF L < 2^14 THEN << 128 + L \div 256, L % 256 >>
    ELSE << 192 + L \div 16777216, (L \div 65536) % 256, (L \div 256) % 256, L % 256 >>

\* the assembly whose tables marks describes: its types have the names T1, T2,
\* ... in the empty namespace, its methods the names that marks gives them
TableAssembly(metadata) ==
    [module |-> "T", sizeOfStackReserve |-> 0, entryPoint |-> Token(MethodDefID, 1),
     TypeDef |-> [i \in 1..Len(metadata.methodLists) |->
                     TypeRow("", << "T1", "T2", "T3", "T4", "T5", "T6" >>[i],
                             metadata.methodLists[i], 0)],
     MethodDef |-> [i \in 1..metadata.methodCount |-> MethodRow(metadata.names[i], Ret)],
     ClassLayout |-> [i \in 1..Len(metadata.parents) |-> [parent |-> metadata.parents[i]]],
     Field |-> << >>,
     MemberRef |-> << >>]

\* getBlobHeaderSize(firstByte); firstByte & 0x80, & 0xC0 and & 0xE0 are the
\* byte without its low 7, 6 and 5 bits
getBlobHeaderSize(firstByte) ==
    IF (firstByte \div 128) * 128 = 0 THEN 1
    ELSE IF (firstByte \div 64) * 64 = 128 THEN 2
    ELSE IF (firstByte \div 32) * 32 = 192 THEN 4
    ELSE 0

\* getBlobSize with the two-byte header's first byte taken unmasked
getBlobSize_Unmasked(blobStart, index) ==
    LET headerSize == getBlobHeaderSize(ByteAt(blobStart, index))
    IN  CASE headerSize = 1 -> ByteAt(blobStart, index)
          [] headerSize = 2 -> ByteAt(blobStart, index) * 256 + ByteAt(blobStart, index + 1)
          [] headerSize = 4 -> (ByteAt(blobStart, index) % 32) * 16777216
                               + ByteAt(blobStart, index + 1) * 65536
                               + ByteAt(blobStart, index + 2) * 256
                               + ByteAt(blobStart, index + 3)
          [] OTHER -> 0

\* getBlobSize(blobStart, index); byte & 0x3F and byte & 0x1F are the byte
\* modulo 64 and 32, and << 8, << 16, << 24 multiply by 2^8, 2^16, 2^24
getBlobSize(blobStart, index) ==
    LET headerSize == getBlobHeaderSize(ByteAt(blobStart, index))
    IN  CASE headerSize = 1 -> ByteAt(blobStart, index)
          [] headerSize = 2 -> (ByteAt(blobStart, index) % 64) * 256
                               + ByteAt(blobStart, index + 1)
          [] headerSize = 4 -> (ByteAt(blobStart, index) % 32) * 16777216
                               + ByteAt(blobStart, index + 1) * 65536
                               + ByteAt(blobStart, index + 2) * 256
                               + ByteAt(blobStart, index + 3)
          [] OTHER -> 0

\* getBlob(blobStart, index): where the span starts and how long it is
getBlob(blobStart, index) ==
    [start |-> index + getBlobHeaderSize(ByteAt(blobStart, index)),
     size |-> getBlobSize(blobStart, index)]

\* a call of getTableEntry<T>(token)
tableEntry(T, token) ==
    /\ lastOp' = Op("getTableEntry", [T |-> T, token |-> token], TRUE, "none",
                    << getTableEntry(TableAssembly(marks[1]), T, token) >>, FALSE)
    /\ UNCHANGED << m_stack, status, marks, runtimeVars >>

\* a call of getTypeDefOfMethod(methodToFind) with a row of the MethodDef table
typeDefOfMethod(methodToFind) ==
    /\ \E typeDef \in getTypeDefOfMethod(TableAssembly(marks[1]), methodToFind) :
           lastOp' = Op("getTypeDefOfMethod", methodToFind, TRUE, "none", << typeDef >>, FALSE)
    /\ UNCHANGED << m_stack, status, marks, runtimeVars >>

\* a call of getMethodByName("", typeName, methodName)
methodByName(typeName, methodName) ==
    /\ \E methodDef \in getMethodByName(TableAssembly(marks[1]), "", typeName, methodName) :
           lastOp' = Op("getMethodByName", << typeName, methodName >>, TRUE, "none",
                        << methodDef >>, FALSE)
    /\ UNCHANGED << m_stack, status, marks, runtimeVars >>

\* a call of getClassLayoutOfType(typeDef) with a row of the TypeDef table
classLayoutOfType(typeDef) ==
    /\ \E classLayout \in getClassLayoutOfType(TableAssembly(marks[1]), typeDef) :
           lastOp' = Op("getClassLayoutOfType", typeDef, TRUE, "none", << classLayout >>, FALSE)
    /\ UNCHANGED << m_stack, status, marks, runtimeVars >>

\* a call of getBlob on a blob heap that has bytes, with what its two helpers
\* returned to it
readBlob ==
    /\ marks[1].blobStart # << >>
    /\ LET blobStart == marks[1].blobStart
           index == marks[1].index
           blob == getBlob(blobStart, index)
       IN  lastOp' = Op("getBlob", index, TRUE, "none",
                        << getBlobHeaderSize(ByteAt(blobStart, index)),
                           getBlobSize(blobStart, index), blob.start, blob.size >>, FALSE)
    /\ UNCHANGED << m_stack, status, marks, runtimeVars >>

\* a Runtime on which nothing is run, and the metadata of an assembly: either
\* tables (the first type starts at MethodDef row 1, no type starts before its
\* predecessor, a type without methods points at the next type's first row or
\* behind the table, each method is named m or n) and an empty blob heap, or
\* types with a ClassLayout table whose rows each designate one of the types
\* as their parent, or no table rows and a blob heap
\* with the header of a blob whose size is near a multiple of a power of two
\* at which the header grows or a further header byte comes into use
MetadataInit ==
    /\ m_stack = Stack(0)
    /\ m_assemblies = EmptyMap
    /\ m_assemblyLoaders = << >>
    /\ m_methodStack = << >>
    /\ m_initializedTypes = {}
    /\ m_staticVariables = EmptyMap
    /\ m_heapKey = 0
    /\ m_heap = EmptyMap
    /\ callStack = << >>
    /\ status = "idle"
    /\ lastError = "none"
    /\ runResult = << >>
    /\ runs = 0
    /\ entry = Ret
    /\ lastOp = NoOp
    /\ cctorCount = [t \in TypeIds |-> 0]
    /\ loaderCalls = [p \in (1..MaxLoaders) \X AssemblyNames |-> 0]
    /\ lastStored = [fld \in FieldIds |-> NullVar]
    /\ \/ \E nT \in 0..MaxTypes : \E nM \in 0..MaxMethods :
              \E methodLists \in [1..nT -> 1..(nM + 1)] :
                  /\ nT >= 1 => methodLists[1] = 1
                  /\ \A i \in 1..(nT - 1) : methodLists[i] <= methodLists[i + 1]
                  /\ \E names \in [1..nM -> {"m", "n"}] :
                         marks = << [methodLists |-> methodLists, methodCount |-> nM,
                                     names |-> names, parents |-> << >>,
                                     blobStart |-> << >>, index |-> 0, size |-> 0] >>
       \/ \E nT \in 1..MaxTypes : \E nC \in 1..MaxTypes :
              \E parents \in [1..nC -> 1..nT] :
                  marks = << [methodLists |-> [i \in 1..nT |-> 1], methodCount |-> 0,
                              names |-> << >>, parents |-> parents,
                              blobStart |-> << >>, index |-> 0, size |-> 0] >>
       \/ \E d \in 0..MaxBlobDigit : \E s \in {0, 7, 8, 14, 16, 21, 24, 28} :
              \E k \in {-1, 0, 1} : \E index \in 0..MaxBlobIndex :
                  LET L == d * 2^s + k
                  IN  /\ L >= 0 /\ L < 2^29
                      /\ marks = << [methodLists |-> << >>, methodCount |-> 0,
                                     names |-> << >>, parents |-> << >>,
                                     blobStart |-> [i \in 1..index |-> 255]
                                                   \o EncodeBlobHeader(L) \o << 170 >>,
                                     index |-> index, size |-> L] >>

MetadataNext ==
    \/ \E T \in {TypeDefID, MethodDefID} :
           \E id \in {TypeDefID, MethodDefID, FieldID} :
               \E index \in 0..(RowCount(TableAssembly(marks[1]), T) + 2) :
                   tableEntry(T, Token(id, index))
    \/ \E methodToFind \in 1..marks[1].methodCount : typeDefOfMethod(methodToFind)
    \/ \E typeDef \in 1..Len(marks[1].methodLists) : classLayoutOfType(typeDef)
    \/ \E typeName \in {"T1", "T2", "T3", "X"} :
           \E methodName \in {"m", "n"} : methodByName(typeName, methodName)
    \/ readBlob

MetadataSpec == MetadataInit /\ [][MetadataNext]_vars

\* C17: getTableEntry<T>(t) returns row t.index exactly when t.id = T::ID and
\* 1 <= t.index <= rowCount(T); for index 0, for index rowCount + 1 or larger
\* and for a token of another table it returns absent and reads no row.
C17_TableEntryInBounds ==
    lastOp.op = "getTableEntry"
        => LET a == TableAssembly(marks[1])
               T == lastOp.arg.T
               t == lastOp.arg.token
           IN  lastOp.value[1] =
                   IF t.id = T /\ 1 <= t.index /\ t.index <= RowCount(a, T)
                   THEN t.index ELSE Null

\* the TypeDef rows whose method range holds the MethodDef row m
Owners(a, m) == {i \in 1..Len(a.TypeDef) : m \in OwnMethods(a, i)}

\* C18: for every MethodDef row m, getTypeDefOfMethod(m) returns the TypeDef i
\* whose range [type[i].methodList, type[i+1].methodList) holds m, the last
\* TypeDef owning the tail, whatever the numbers of TypeDef and MethodDef rows.
C18_TypeDefOwnsMethod ==
    (lastOp.op = "getTypeDefOfMethod" /\ Len(marks[1].methodLists) >= 1)
        => lastOp.value[1] \in Owners(TableAssembly(marks[1]), lastOp.arg)

\* the header length that the encoding gives a blob of size L
HeaderLength(L) == IF L < 2^7 THEN 1 ELSE IF L < 2^14 THEN 2 ELSE 4

\* C19: for every L in [0, 2^29), decoding the blob header that encodes L
\* (1 byte below 2^7, 2 bytes with prefix 10 below 2^14, 4 bytes with prefix
\* 110 otherwise) yields the header length 1, 2 or 4 and the size exactly L.
C19_BlobHeaderRoundTrip ==
    lastOp.op = "getBlob"
        => LET L == marks[1].size
           IN  /\ lastOp.value[1] = HeaderLength(L)
               /\ lastOp.value[2] = L
               /\ lastOp.value[3] = marks[1].index + HeaderLength(L)
               /\ lastOp.value[4] = L

\* the largest size, 2^29 - 1, was decoded from a four-byte header at index 1
C19_Witness ==
    /\ lastOp.op = "getBlob" /\ lastOp.arg = 1
    /\ marks[1].size = 536870911
    /\ marks[1].blobStart = << 255, 223, 255, 255, 255, 170 >>
    /\ lastOp.value = << 4, 536870911, 5, 536870911 >>

(***************************************************************************)
(* Properties of the heap.                                                 *)
(***************************************************************************)
\* C20: the handles of the heap are exactly 0 .. m_heapKey - 1: each
\* allocation adds one entry under the previous value of the counter and
\* increments the counter by one, no entry is removed or replaced, and the
\* HeapCollision error is never raised.
C20_HeapHandlesDense ==
    [][/\ DOMAIN m_heap' = 0..(m_heapKey' - 1)
       /\ m_heapKey' \in {m_heapKey, m_heapKey + 1}
       /\ m_heapKey' = m_heapKey + 1 => DOMAIN m_heap' = DOMAIN m_heap \cup {m_heapKey}
       /\ \A key \in DOMAIN m_heap :
              key \in DOMAIN m_heap' /\ m_heap'[key] = m_heap[key]
       /\ lastError' # "HeapCollision"
       /\ lastOp'.err # "HeapCollision"]_vars

\* a second object was allocated, in a second run, after the first one
C20_Witness ==
    /\ lastOp.op = "newobj" /\ lastOp.err = "none"
    /\ m_heapKey = 2 /\ DOMAIN m_heap = {0, 1}
    /\ runs = 2
    /\ m_stack.tags = << "O" >>


(***************************************************************************)
(* Properties of the local slots of a frame.                               *)
(***************************************************************************)
\* the step is a Ldloc, or a Stloc, that finishes; lastOp'.arg is the slot
LdlocStep == lastOp'.op = "ldloc" /\ lastOp'.err = "none"
StlocStep == lastOp'.op = "stloc" /\ lastOp'.err = "none"

\* the local slots of the executing frame before and after the step
Locals == Top.locals
LocalsAfter == callStack'[Len(callStack')].locals

\* the entrypoint body { ldc.i4.s 42; stloc.0; ldloc.0; pop; ret }
StoreLoadPop == Concat(<< Ldc_i4_s(42), << 10 >>, << 6 >>, Pop, Ret >>)

\* C21: a Ldloc n on a slot that holds a value pushes exactly that slot's tag
\* and payload and then empties slot n, leaving every other slot of the frame
\* unchanged; in { ldc.i4.s 42; stloc.0; ldloc.0; pop; ret } the value popped
\* is the Int32 42 and local 0 is empty after the Ldloc_0.
C21_LdlocMovesSlot ==
    [][/\ (LdlocStep /\ lastOp'.arg \in DOMAIN Locals) =>
              /\ m_stack'.tags = Append(m_stack.tags, Locals[lastOp'.arg].type)
              /\ TopElement(m_stack') = Locals[lastOp'.arg]
              /\ m_stack'.sp = m_stack.sp + getTypeSize(Locals[lastOp'.arg].type)
              /\ Len(callStack') = Len(callStack)
              /\ DOMAIN LocalsAfter = (DOMAIN Locals) \ {lastOp'.arg}
              /\ \A i \in DOMAIN LocalsAfter : LocalsAfter[i] = Locals[i]
       /\ (PopStep /\ entry = StoreLoadPop /\ m_assemblies["A"] = "A") =>
              /\ TopElement(m_stack) = Variable("Int32", I32(42))
              /\ lastOp'.value = I32(42)
              /\ Locals = EmptyMap]_vars

\* slot 0, holding an Int64, was loaded while slot 1 held an Int32
C21_Witness ==
    /\ lastOp.op = "ldloc" /\ lastOp.arg = 0 /\ lastOp.err = "none"
    /\ status = "running"
    /\ TopElement(m_stack) = Variable("Int64", Wide(1, 2))
    /\ Top.locals = (1 :> Variable("Int32", I32(7)))

\* C22: a Stloc n pops exactly one element from the evaluation stack and
\* afterwards slot n of the current frame holds that element's tag and payload,
\* whatever the slot held before; all other slots of the frame are unchanged.
C22_StlocStoresTop ==
    [][StlocStep =>
           /\ m_stack.tags # << >>
           /\ m_stack'.tags = Front(m_stack.tags)
           /\ m_stack'.sp = m_stack.sp - getTypeSize(TopElement(m_stack).type)
           /\ Len(callStack') = Len(callStack)
           /\ DOMAIN LocalsAfter = (DOMAIN Locals) \cup {lastOp'.arg}
           /\ LocalsAfter[lastOp'.arg] = TopElement(m_stack)
           /\ \A i \in (DOMAIN Locals) \ {lastOp'.arg} : LocalsAfter[i] = Locals[i]]_vars

\* an Int64 was stored to slot 0 over the Int32 it held
C22_Witness ==
    /\ lastOp.op = "stloc" /\ lastOp.arg = 0 /\ lastOp.err = "none"
    /\ status = "running"
    /\ Top.locals = (0 :> Variable("Int64", Wide(1, 2)))
    /\ m_stack.tags = << >>
    /\ Top.pc = 13


\* the slot index that the Stloc, Ldloc or Ldloca of the step was called with
SlotAddressed ==
    IF lastOp'.op = "ldloca" THEN GetU8(getByteCode(Top), NextInstruction) ELSE lastOp'.arg

\* C23: every frame has 256 local slots: for every index n in 0..255, Stloc n,
\* Ldloc n and Ldloca n address a slot inside the frame's own local array.
C23_LocalSlots256 ==
    [][(lastOp'.op \in {"stloc", "ldloc", "ldloca"} /\ SlotAddressed \in 0..255)
       => SlotAddressed \in 0..(NumLocals - 1)]_vars


\* C24: for the Stloc and Ldloc families (and Ldarg, whose handler ignores the
\* index), dispatch takes the slot index from an 8-bit inline operand for the
\* short form (Stloc_s, Ldloc_s) and from a 16-bit inline operand for the full
\* form (Stloc, Ldloc).
C24_OperandWidths ==
    [][(DispatchStep /\ lastOp'.op \in {"stloc", "ldloc"})
       => LET code == getByteCode(Top)
          IN  /\ NextInstruction.op \in {"Stloc_s", "Ldloc_s"}
                     => lastOp'.arg = GetU8(code, NextInstruction)
              /\ NextInstruction.op \in {"Stloc", "Ldloc"}
                     => lastOp'.arg = GetU16(code, NextInstruction)]_vars


(***************************************************************************)
(* Properties of the program counter of a frame.                           *)
(***************************************************************************)
\* the executing frame after the step
TopAfter == callStack'[Len(callStack')]

\* the signed offset of the Br or Br_s at the program counter
BranchOffset ==
    IF NextInstruction.op = "Br_s" THEN GetI8(getByteCode(Top), NextInstruction)
    ELSE GetI32(getByteCode(Top), NextInstruction)

\* the entrypoint body { br.s +2; ldc.i4.0; pop; ret }
SkipTwo == Concat(<< Br_s(2), << 22 >>, Pop, Ret >>)

\* C25: when a Br or Br_s with the signed offset d is dispatched from the
\* instruction at byte offset p with length len, the next instruction decoded
\* in that frame is the one at p + len + d, for positive, zero and negative d;
\* in { br.s +2; ldc.i4.0; pop; ret } neither the Ldc_i4_0 nor the Pop is
\* dispatched and the run ends with an empty stack.
C25_BranchTarget ==
    [][/\ (DispatchStep /\ NextInstruction.op \in {"Br", "Br_s"}) =>
              /\ Len(callStack') = Len(callStack)
              /\ TopAfter.pc = Top.pc + NextInstruction.len + BranchOffset
              /\ TopAfter.locals = Top.locals
              /\ m_stack' = m_stack
       /\ (entry = SkipTwo /\ callStack # << >> /\ m_assemblies["A"] = "A") =>
              /\ lastOp'.op \notin {"ldc", "pop"}
              /\ status' = "returned" => m_stack'.tags = << >> /\ m_stack'.sp = 0]_vars

\* the backward br.s of { br.s +1; ret; br.s -3 } was taken, to the Ret
C25_Witness ==
    /\ lastOp.op = "br" /\ lastOp.arg = -3
    /\ entry = Concat(<< Br_s(1), Ret, Br_s(-3) >>)
    /\ status = "running" /\ Top.pc = 2


\* C26: once a Ret is dispatched in a frame, no further instruction of that
\* frame is dispatched, even when code bytes follow the Ret: the frame is gone,
\* the frames under it are as they were, and after the Ret of the entry frame
\* nothing is dispatched until the next run.  The Ret itself changes neither
\* the evaluation stack nor a local slot.
C26_RetEndsFrame ==
    [][/\ (DispatchStep /\ NextInstruction.op = "Ret") =>
              /\ lastOp'.op = "ret"
              /\ callStack' = Front(callStack)
              /\ m_stack' = m_stack
              /\ status' = IF Len(callStack) = 1 THEN "returned" ELSE "running"
       /\ status = "returned" =>
              /\ callStack = << >>
              /\ callStack' # << >> => lastOp'.op = "run"]_vars

\* the Ret of { ldc.i4.7; ret; pop; ret } ended the run with the 7 on the stack
C26_Witness ==
    /\ entry = Concat(<< Ldc_i4_7, Ret, Pop, Ret >>)
    /\ lastOp.op = "ret" /\ status = "returned"
    /\ callStack = << >>
    /\ m_stack.tags = << "Int32" >>


\* C27: the dispatch of a frame never decodes an instruction at a byte offset
\* outside [0, codeSize): when the program counter has reached or passed the
\* end of the code, by falling through the last instruction or by a forward
\* branch, or a backward branch has taken it below 0, the instruction sequence
\* of the frame ends, without an error and with the stack as it was.
C27_NoDecodeOutsideCode ==
    [][(/\ status = "running" /\ callStack # << >>
        /\ Top.pend = NoPend
        /\ lastOp'.op # "crash")
       => IF Top.pc \in 0 .. Len(getByteCode(Top)) - 1
          THEN lastOp'.op # "end"
          ELSE /\ lastOp'.op = "end" /\ lastOp'.err = "none"
               /\ callStack' = Front(callStack)
               /\ m_stack' = m_stack
               /\ lastError' = lastError
               /\ status' = IF Len(callStack) = 1 THEN "returned" ELSE "running"]_vars

\* the run of { ldc.i4.7; br.s -5; ret } ended after its branch to offset -2
C27_Witness ==
    /\ entry = Concat(<< Ldc_i4_7, Br_s(-5), Ret >>)
    /\ lastOp.op = "end" /\ status = "returned"
    /\ lastError = "none"
    /\ m_stack.tags = << "Int32" >>


(***************************************************************************)
(* Properties of the frames in progress.                                   *)
(***************************************************************************)
\* C28: Runtime::m_methodStack holds exactly the frames whose dispatch is in
\* progress, the innermost last: a frame is pushed when run, Call, Newobj or a
\* .cctor invocation enters it and popped when its dispatch ends, so that
\* m_methodStack is empty again when run() has returned.
C28_MethodStackTracksFrames ==
    /\ Len(m_methodStack) = Len(callStack)
    /\ \A i \in 1 .. Len(callStack) : m_methodStack[i] = callStack[i].token
    /\ status = "returned" => m_methodStack = << >>


\* the step dispatches a Call or a Newobj that enters a callee frame
EntersCallee ==
    /\ DispatchStep
    /\ NextInstruction.op \in {"Call", "Newobj"}
    /\ Len(callStack') = Len(callStack) + 1

\* what entering the callee of the token does, whichever of Call and Newobj
\* enters it: the caller frame is left behind the instruction, and the frame
\* of the method the token names is on top, at its first instruction
CalleeEntered ==
    /\ callStack' = Append(SetTop([Top EXCEPT !.pc = Top.pc + NextInstruction.len]), TopAfter)
    /\ TopAfter.pc = 0 /\ TopAfter.locals = EmptyMap /\ TopAfter.pend = NoPend
    /\ TopAfter.token.id = MethodDefID
    /\ TopAfter.method = TopAfter.token.index
    /\ lastOp'.err = "none" /\ lastError' = lastError /\ status' = "running"
    /\ UNCHANGED << staticVars, m_assemblyLoaders >>
    /\ IF NextToken.id = MethodDefID
       THEN /\ TopAfter.token = NextToken /\ TopAfter.asm = Top.asm
            /\ UNCHANGED << m_assemblies, loaderCalls >>
       ELSE /\ NextToken.id = MemberRefID
            /\ TopAfter.asm = CalledMember.assemblyName
            /\ TopAfter.asm \in DOMAIN m_assemblies'
            /\ Assemblies[m_assemblies'[TopAfter.asm]].MethodDef[TopAfter.method].name
                   = CalledMember.methodName

\* C30: a Newobj that resolves its constructor allocates exactly one new
\* zero-filled heap object and pushes exactly one O-tagged reference to it,
\* both before the first instruction of the constructor frame is dispatched;
\* apart from that allocation and that push it does what a Call does for the
\* same token, which leaves the heap and the stack as they are.
C30_NewobjAllocatesThenCalls ==
    [][(EntersCallee /\ ~m_stack'.overrun) =>
          /\ CalleeEntered
          /\ IF NextInstruction.op = "Call"
             THEN UNCHANGED << m_stack, heapVars >>
             ELSE /\ m_heapKey' = m_heapKey + 1
                  /\ DOMAIN m_heap' = DOMAIN m_heap \cup {m_heapKey}
                  /\ m_heapKey \notin DOMAIN m_heap
                  /\ \A key \in DOMAIN m_heap : m_heap'[key] = m_heap[key]
                  /\ \A i \in DOMAIN m_heap'[m_heapKey] : m_heap'[m_heapKey][i] = 0
                  /\ m_stack'.tags = Append(m_stack.tags, "O")
                  /\ m_stack'.sp = m_stack.sp + getTypeSize("O")
                  /\ TopElement(m_stack') = Variable("O", HeapAddress(m_heapKey))]_vars

\* a Newobj of [B]Ns.C::.ctor allocated zero bytes as the second object, and
\* the constructor frame is at its first instruction
C30_Witness ==
    /\ lastOp.op = "newobj" /\ lastOp.err = "none" /\ status = "running"
    /\ Len(callStack) = 2 /\ Top.pc = 0 /\ Top.asm = "B"
    /\ m_heapKey = 2 /\ Len(m_heap[1]) > 0 /\ m_heap[1] = Zeros(Len(m_heap[1]))
    /\ TopElement(m_stack) = Variable("O", HeapAddress(1))


\* C29: after a Call, a Newobj or a static-field access that enters a callee
\* frame, no instruction of the caller frame is dispatched until the dispatch
\* of the callee has ended, and the next instruction of the caller to be
\* dispatched is the one that follows the calling instruction in byte order;
\* within one frame, absent branches, the instructions are dispatched in
\* increasing byte offset.
C29_CallerWaitsForCallee ==
    [][(status = "running" /\ callStack # << >>) =>
          \* only the innermost frame is ever touched
          /\ \A i \in 1 .. Len(callStack) - 1 :
                 i \in DOMAIN callStack' => callStack'[i] = callStack[i]
          /\ Len(callStack') <= Len(callStack) + 1
          \* a callee is entered: the caller is left behind its instruction
          /\ (DispatchStep /\ Len(callStack') = Len(callStack) + 1) =>
                 /\ NextInstruction.op \in {"Call", "Newobj", "Ldsfld", "Ldsflda", "Stsfld"}
                 /\ callStack'[Len(callStack)].pc = Top.pc + NextInstruction.len
                 /\ callStack'[Len(callStack)].locals = Top.locals
                 /\ TopAfter.pc = 0
          \* the callee ends: the caller goes on where it was left
          /\ (Len(callStack') = Len(callStack) - 1 /\ status' = "running") =>
                 callStack' = Front(callStack)
          \* no branch: the next instruction of the frame is the following one
          /\ (/\ DispatchStep /\ Len(callStack') = Len(callStack)
              /\ status' = "running"
              /\ NextInstruction.op \notin {"Br", "Br_s"}) =>
                 TopAfter.pc = Top.pc + NextInstruction.len
          \* the static-field access is completed after its .cctor
          /\ (Top.pend # NoPend /\ Len(callStack') = Len(callStack) /\ status' = "running") =>
                 TopAfter.pc = Top.pc]_vars

\* the Helper called by { call Helper; call [B]Ns.C::M; ret } has returned and
\* the caller is at its second call
C29_Witness ==
    /\ entry = Concat(<< Call(Token(MethodDefID, 2)), Call(RefBM), Ret >>)
    /\ lastOp.op = "ret" /\ lastOp.arg = "call"
    /\ status = "running" /\ Len(callStack) = 1
    /\ Top.pc = 5 /\ Top.kind = "entry"


(***************************************************************************)
(* Properties of the lookups by name and by parent.                        *)
(***************************************************************************)
\* the MethodDef rows of the name methodName in the method range of a TypeDef
\* of the name typeName in the namespace ns
MethodsNamed(a, ns, typeName, methodName) ==
    {m \in 1..Len(a.MethodDef) :
        /\ a.MethodDef[m].name = methodName
        /\ \E i \in 1..Len(a.TypeDef) :
               /\ a.TypeDef[i].typeNamespace = ns /\ a.TypeDef[i].typeName = typeName
               /\ m \in OwnMethods(a, i)}

\* C31: getMethodByName(ns, type, name) returns a MethodDef row that lies in the
\* method range of a TypeDef of that namespace and name and has the name asked
\* for; it never returns a method of another type, it handles the last TypeDef
\* without reading a TypeDef row past the table, and it returns absent when
\* there is no such method.
C31_MethodByNameInOwnType ==
    lastOp.op = "getMethodByName"
        => LET found == MethodsNamed(TableAssembly(marks[1]), "", lastOp.arg[1], lastOp.arg[2])
           IN  IF found = {} THEN lastOp.value[1] = Null
               ELSE lastOp.value[1] \in found


\* C32: getClassLayoutOfType(typeDef) examines every ClassLayout row 1..N and
\* no other index, returns a row whose parentIndex designates typeDef when
\* there is one (also when it is the last row N), and returns absent when there
\* is none or when the ClassLayout table is empty.
C32_ClassLayoutByParent ==
    lastOp.op = "getClassLayoutOfType"
        => LET parents == marks[1].parents
               rows == {r \in 1..Len(parents) : parents[r] = lastOp.arg}
           IN  IF rows = {} THEN lastOp.value[1] = Null
               ELSE lastOp.value[1] \in rows


(***************************************************************************)
(* Properties of the isolation of frames.                                  *)
(***************************************************************************)
\* C33: every frame entered by a Call, a Newobj or a .cctor invocation starts
\* with the program counter 0 and with all its local slots empty, also when it
\* runs the same method as a frame already active; nothing the callee does
\* changes the local slots or the program counter of another active frame,
\* while the evaluation stack is the one stack shared by all frames: entering
\* and leaving a frame by Call and Ret leave it as it is.
C33_FramesIsolated ==
    [][(status = "running" /\ callStack # << >>) =>
          /\ Len(callStack') = Len(callStack) + 1 =>
                 /\ TopAfter.pc = 0
                 /\ TopAfter.locals = EmptyMap
                 /\ lastOp'.op = "call" => m_stack' = m_stack
          /\ \A i \in 1 .. Len(callStack) - 1 :
                 i \in DOMAIN callStack' =>
                     /\ callStack'[i].locals = callStack[i].locals
                     /\ callStack'[i].pc = callStack[i].pc
          /\ (Len(callStack') = Len(callStack) - 1 /\ status' \in {"running", "returned"}) =>
                 m_stack' = m_stack]_vars

\* Main, with the 7 in its local 0, has called Main, which did the same and
\* called Main: the third frame is at offset 0 with no local
C33_Witness ==
    /\ lastOp.op = "call" /\ status = "running"
    /\ Len(callStack) = 3
    /\ \A i \in 1..3 : callStack[i].token = Token(MethodDefID, 1)
    /\ Top.pc = 0 /\ Top.locals = EmptyMap
    /\ callStack[1].locals = (0 :> Variable("Int32", I32(7)))
    /\ callStack[2].locals = (0 :> Variable("Int32", I32(7)))
    /\ callStack[1].pc = 7 /\ callStack[2].pc = 7


(***************************************************************************)
(* Properties of the instructions that fail.                               *)
(***************************************************************************)
\* C34: when a Call or a Newobj fails with AssemblyNotFound, MemberNotFound or
\* InvalidCallToken, the evaluation stack (its bytes in use and its tags), the
\* heap and the heap handle counter are as they were immediately before the
\* instruction: a failing Newobj allocates no object and pushes no reference.
C34_FailedCallLeavesState ==
    [][(/\ DispatchStep
        /\ NextInstruction.op \in {"Call", "Newobj"}
        /\ lastOp'.err \in {"AssemblyNotFound", "MemberNotFound", "InvalidCallToken"})
       => /\ m_stack'.sp = m_stack.sp
          /\ m_stack'.tags = m_stack.tags
          /\ m_stack' = m_stack
          /\ m_heap' = m_heap
          /\ m_heapKey' = m_heapKey
          /\ status' = "error"]_vars

\* a Newobj of a type that B does not have failed with MemberNotFound after an
\* earlier Newobj had allocated an object and an Int32 had been pushed
C34_Witness ==
    /\ lastOp.op = "newobj" /\ lastOp.err = "MemberNotFound"
    /\ status = "error"
    /\ m_heapKey = 1 /\ DOMAIN m_heap = {0}
    /\ m_stack.tags = << "Int32" >> /\ m_stack.sp = 4


\* C35: a Ldloc n on a slot that holds no value (never stored in this frame,
\* or emptied by an earlier Ldloc n) pushes nothing: it raises a fatal error
\* and leaves the evaluation stack as it is.  Likewise a Ldsfld of a field
\* that no Stsfld has stored yet pushes nothing and raises a fatal error.
C35_EmptyLoadRaises ==
    [][/\ (DispatchStep /\ lastOp'.op = "ldloc" /\ lastOp'.arg \notin DOMAIN Locals) =>
              /\ status' = "error"
              /\ lastError' \notin {"none", "crash"}
              /\ m_stack' = m_stack
       /\ (/\ status = "running" /\ callStack # << >>
           /\ lastOp'.op = "ldsfld"
           /\ staticEntry(m_staticVariables, lastOp'.arg) = NullVar) =>
              /\ status' \in {"error", "running"}
              /\ status' = "error" => lastError' \notin {"none", "crash"}
              /\ status' = "running" => Len(callStack') = Len(callStack) + 1
              /\ m_stack' = m_stack]_vars


(***************************************************************************)
(* Termination.                                                            *)
(***************************************************************************)
\* no decoding of the entrypoint body, from whatever offset, shows a branch
\* with a negative offset or a Call or Newobj of the entrypoint itself; the
\* other methods of the model have no branch and call nothing, and the .cctor
\* of T2 invokes that of T1 only
BranchesForwardNoCycle ==
    \A p \in 0 .. Len(entry) - 1 :
        LET ins == Instruction(entry, p)
        IN  /\ ins.op = "Br_s" => GetI8(entry, ins) >= 0
            /\ ins.op = "Br" => GetI32(entry, ins) >= 0
            /\ ins.op \in {"Call", "Newobj"} => GetToken(entry, ins) # Token(MethodDefID, 1)

\* C36: for every program in which all branch offsets are non-negative and the
\* call graph has no cycle, run() eventually ends, either by returning or by
\* raising a fatal error: a turn of the dispatch loop moves the program counter
\* of its frame forward, completes a static-field access, enters a frame (of
\* which no more than three are ever nested) or ends one, and a run in progress
\* goes on or ends in one of these two ways, never in a third.
C36_RunEnds ==
    [][(status = "running" /\ callStack # << >> /\ BranchesForwardNoCycle) =>
          /\ status' \in {"running", "returned", "error"}
          /\ Len(callStack') <= 3
          /\ (status' = "running" /\ Len(callStack') = Len(callStack)) =>
                 \/ TopAfter.pc > Top.pc
                 \/ Top.pend # NoPend /\ TopAfter.pend = NoPend /\ TopAfter.pc = Top.pc]_vars
====
